---- MODULE Spec2Model ----
(***************************************************************************)
(* Derived-variable engine of wrfavg/derived_variables_mm.py:              *)
(* descriptors (DerivedVariable and the Extrema family), their             *)
(* checkPrerequisites / createVariable / computeValues / aggregateValues   *)
(* methods, and the scratch (tmp) and constants (const) dictionaries that  *)
(* carry state between calls.                                              *)
(*                                                                         *)
(* Conventions                                                             *)
(*   - Python None is the empty tuple, a present value x is <<x>>.         *)
(*   - a number is an exact rational <<num, den>> (den > 0, reduced) or    *)
(*     the float NaN; float rounding is not modelled.                      *)
(*   - an array with a leading time axis is a sequence of fields, a field  *)
(*     is a function Grid -> number.                                       *)
(*   - a dictionary is a function whose DOMAIN is the set of its keys.     *)
(*   - a method call returns [err, out]: err = "none" when it returns.     *)
(***************************************************************************)
EXTENDS Integers, Sequences, FiniteSets, TLC

\* ------------------------------------------------------------- bounds ----
\* longest chunk (time steps) handed to one computeValues call
MaxLen == 3
\* longest chunk result (time steps) handed to one aggregateValues call
MaxChunk == 2
\* number of calls after which the driver stops feeding chunks
MaxCalls == 2

\* grid points of a field (every array operation of the module is
\* element-wise over them)
Grid == {"sw", "ne"}

\* ------------------------------------------------------------ options ----
None == << >>
Some(x) == <<x>>

\* ------------------------------------------------------------ numbers ----
NaN == <<"NaN">>
IsNaN(x) == x = NaN
\* an entry of a masked array that is masked out
Masked == <<"masked">>

RECURSIVE GCD(_, _)
GCD(a, b) == IF b = 0 THEN a ELSE GCD(b, a % b)

Abs(n) == IF n < 0 THEN -n ELSE n

\* the rational n/d (d > 0) in lowest terms
Q(n, d) == LET g == GCD(Abs(n), d) IN <<n \div g, d \div g>>
R(n) == <<n, 1>>

\* float arithmetic: NaN propagates through every operation
Add(x, y) == IF IsNaN(x) \/ IsNaN(y) THEN NaN
             ELSE IF x[2] = 1 /\ y[2] = 1 THEN <<x[1] + y[1], 1>>
             ELSE LET g == GCD(x[2], y[2])
                  IN Q(x[1] * (y[2] \div g) + y[1] * (x[2] \div g),
                       (x[2] \div g) * y[2])
Mul(x, y) == IF IsNaN(x) \/ IsNaN(y) THEN NaN
             ELSE LET g == GCD(Abs(x[1]), y[2])
                      h == GCD(Abs(y[1]), x[2])
                  IN IF g = 0 \/ h = 0 THEN R(0)
                     ELSE Q((x[1] \div g) * (y[1] \div h),
                            (x[2] \div h) * (y[2] \div g))
DivInt(x, n) == IF IsNaN(x) THEN NaN ELSE Q(x[1], x[2] * n)
Sub(x, y) == Add(x, Mul(R(-1), y))
\* x % m for an integer m > 0 (the result has the sign of m)
Mod(x, m) == IF IsNaN(x) THEN NaN
             ELSE Q(x[1] - m * x[2] * (x[1] \div (x[2] * m)), x[2])
\* comparisons with NaN are False
LessEq(x, y) == ~IsNaN(x) /\ ~IsNaN(y) /\ x[1] * y[2] <= y[1] * x[2]
Less(x, y) == ~IsNaN(x) /\ ~IsNaN(y) /\ x[1] * y[2] < y[1] * x[2]
Greater(x, y) == Less(y, x)

\* np.maximum / np.minimum: NaN propagates
\* (an entry masked in either operand is masked in the result)
Maximum(x, y) == IF x = Masked \/ y = Masked THEN Masked
                 ELSE IF IsNaN(x) \/ IsNaN(y) THEN NaN
                 ELSE IF Less(x, y) THEN y ELSE x
Minimum(x, y) == IF x = Masked \/ y = Masked THEN Masked
                 ELSE IF IsNaN(x) \/ IsNaN(y) THEN NaN
                 ELSE IF Less(y, x) THEN y ELSE x
\* np.fmax / np.fmin: NaN is ignored unless both are NaN
FMax(x, y) == IF x = Masked \/ y = Masked THEN Masked
              ELSE IF IsNaN(x) THEN y ELSE IF IsNaN(y) THEN x ELSE Maximum(x, y)
FMin(x, y) == IF x = Masked \/ y = Masked THEN Masked
              ELSE IF IsNaN(x) THEN y ELSE IF IsNaN(y) THEN x ELSE Minimum(x, y)

\* ------------------------------------------------------------- arrays ----
\* all arrays of at most n time steps over the field set S
SeqsUpTo(S, n) == UNION {[1..k -> S] : k \in 0..n}

Zeros == [g \in Grid |-> R(0)]
\* ndarray.size of an array with leading time axis, and of a field
Size(data) == Len(data) * Cardinality(Grid)
FieldSize(field) == Cardinality(DOMAIN field)

\* the time series of one grid point
Column(data, g) == [t \in 1..Len(data) |-> data[t][g]]

RECURSIVE SumSeq(_)
SumSeq(s) == IF s = << >> THEN R(0) ELSE Add(s[1], SumSeq(Tail(s)))

RECURSIVE DropNaN(_)
DropNaN(s) == IF s = << >> THEN << >>
              ELSE IF IsNaN(s[1]) THEN DropNaN(Tail(s))
              ELSE <<s[1]>> \o DropNaN(Tail(s))

RECURSIVE MaxSeq(_)
MaxSeq(s) == IF Len(s) = 1 THEN s[1] ELSE Maximum(s[1], MaxSeq(Tail(s)))
RECURSIVE MinSeq(_)
MinSeq(s) == IF Len(s) = 1 THEN s[1] ELSE Minimum(s[1], MinSeq(Tail(s)))

\* np.sum / np.nansum / np.mean / np.nanmean along the time axis (axis 0)
NpSum(data) == [g \in Grid |-> SumSeq(Column(data, g))]
NpNanSum(data) == [g \in Grid |-> SumSeq(DropNaN(Column(data, g)))]
NpMean(data) == [g \in Grid |-> DivInt(SumSeq(Column(data, g)), Len(data))]
NpNanMean(data) ==
  [g \in Grid |-> LET c == DropNaN(Column(data, g))
                  IN IF c = << >> THEN NaN ELSE DivInt(SumSeq(c), Len(c))]
\* np.max / np.nanmax / np.min / np.nanmin along the time axis
NpMax(data) == [g \in Grid |-> MaxSeq(Column(data, g))]
NpMin(data) == [g \in Grid |-> MinSeq(Column(data, g))]
NpNanMax(data) ==
  [g \in Grid |-> LET c == DropNaN(Column(data, g))
                  IN IF c = << >> THEN NaN ELSE MaxSeq(c)]
NpNanMin(data) ==
  [g \in Grid |-> LET c == DropNaN(Column(data, g))
                  IN IF c = << >> THEN NaN ELSE MinSeq(c)]

AddField(a, b) == [g \in Grid |-> Add(a[g], b[g])]

\* ------------------------------------------------------- call results ----
\* err is the exception type, msg a tag of its message ("" when it has none)
Return(x) == [err |-> "none", msg |-> "", out |-> x]
Raise(e, msg) == [err |-> e, msg |-> msg, out |-> None]


\* -------------------------------------------------------- descriptors ----
\* seconds per day (ConsecutiveExtrema.lengthofday, MeanExtrema.interval)
lengthofday == 86400

\* DerivedVariable.__init__: the attributes the methods read.  The two
\* attributes that change after construction (checked, period) are state
\* variables of the model.
DerivedVariable(name, prerequisites, constants, linear, ignoreNaN, normalize) ==
  [cls |-> "DerivedVariable", name |-> name, prerequisites |-> prerequisites,
   constants |-> constants, linear |-> linear, normalize |-> normalize,
   ignoreNaN |-> ignoreNaN, tmpdata |-> None, carryover |-> FALSE]

Rain ==
  [DerivedVariable("RAIN", <<"RAINNC", "RAINC">>, None, TRUE, FALSE, TRUE)
     EXCEPT !.cls = "Rain"]

\* TimeOfConvection()
TimeOfConvection ==
  [DerivedVariable("TimeOfConvection", <<"TRAINCVMAX", "Times">>,
                   Some(<<"XLONG">>), FALSE, TRUE, TRUE)
     EXCEPT !.cls = "TimeOfConvection"] @@ [time_offset |-> 0]

\* '{:03d}'.format(n) for 0 <= n
Format03d(n) == IF n < 10 THEN "00" \o ToString(n)
                ELSE IF n < 100 THEN "0" \o ToString(n) ELSE ToString(n)

\* WetDays.__init__(threshold, rain, ignoreNaN): threshold in mm/day
WetDays(threshold, rain, ignoreNaN) ==
  [DerivedVariable("WetDays_" \o Format03d((10 * threshold[1]) \div threshold[2]),
                   <<rain>>, None, FALSE, ignoreNaN, TRUE)
     EXCEPT !.cls = "WetDays"]
    @@ [threshold |-> Q(threshold[1], threshold[2] * 86400), rain |-> rain]

\* varname[0].upper() + varname[1:]
Capitalize(varname) ==
  CASE varname = "rain" -> "Rain"
    [] varname = "t2" -> "T2"
    [] OTHER -> varname

\* '{:f}'.format(threshold) for an integral threshold
FormatF(threshold) == ToString(threshold[1]) \o ".000000"

\* Extrema.__init__(var, mode) with name=None: mode is "max" or "min"
Extrema(varname, mode, ignoreNaN) ==
  [cls |-> "Extrema",
   name |-> (IF mode = "max" THEN "Max" ELSE "Min") \o Capitalize(varname),
   prerequisites |-> <<varname>>, constants |-> None, linear |-> FALSE,
   normalize |-> FALSE, ignoreNaN |-> ignoreNaN, tmpdata |-> None,
   carryover |-> FALSE, mode |-> IF mode = "max" THEN 1 ELSE 0]

\* ConsecutiveExtrema.__init__(var, mode, threshold): mode is "above" or "below"
ConsecutiveExtrema(varname, mode, threshold, ignoreNaN) ==
  LET name == (IF mode = "above" THEN ">" ELSE "<") \o FormatF(threshold)
                 \o Capitalize(varname)
  IN [cls |-> "ConsecutiveExtrema", name |-> name,
      prerequisites |-> <<varname>>, constants |-> None, linear |-> FALSE,
      normalize |-> FALSE, ignoreNaN |-> ignoreNaN,
      thresmode |-> IF mode = "above" THEN 1 ELSE 0, threshold |-> threshold,
      mode |-> 1, tmpdata |-> Some("COX_" \o name), carryover |-> TRUE]

\* MeanExtrema.__init__(var, mode, interval): interval in days
MeanExtrema(varname, mode, interval, ignoreNaN) ==
  LET base == Extrema(varname, mode, ignoreNaN)
      name == base.name \o "_" \o ToString(interval) \o "d"
  IN [cls |-> "MeanExtrema", name |-> name,
      prerequisites |-> base.prerequisites, constants |-> None,
      linear |-> FALSE, normalize |-> FALSE, ignoreNaN |-> ignoreNaN,
      mode |-> base.mode, interval |-> interval * 24 * 60 * 60,
      tmpdata |-> Some("MEX_" \o name), carryover |-> TRUE]

\* ---------------------------------------------- DerivedVariable methods ----
\* varmap.get(var, var), applied only when varmap is a non-empty dict
MapName(varmap, var) ==
  IF varmap # None /\ DOMAIN varmap[1] # {}
  THEN IF var \in DOMAIN varmap[1] THEN varmap[1][var] ELSE var
  ELSE var

\* DerivedVariable.checkPrerequisites(target, const, varmap): target and
\* const are the variable-name sets of the two datasets (const may be None),
\* varmap None or a dict.  out is the value returned and stored in
\* self.checked; iterating self.constants = None raises TypeError before
\* self.checked is assigned.
checkPrerequisites(self, target, const, varmap) ==
  LET prereqs == \A i \in DOMAIN self.prerequisites :
                    MapName(varmap, self.prerequisites[i]) \in target
  IN IF const # None
     THEN IF self.constants = None THEN Raise("TypeError", "")
          ELSE Return(prereqs /\ \A i \in DOMAIN self.constants[1] :
                                    self.constants[1][i] \in const[1])
     ELSE Return(prereqs)

\* DerivedVariable.createVariable(target): the descriptor handed to add_var
createVariable(self, checked) ==
  IF ~checked THEN Raise("DerivedVariableError", "prerequisites not satisfied")
  ELSE Return(Some([name |-> self.name]))

\* A variant of the guards with one plausible slip: an empty constants
\* dictionary passes for a supplied one
NoneOnlyGuard(self, checked, const) ==
  IF ~checked THEN Raise("DerivedVariableError", "prerequisites not satisfied")
  ELSE IF self.constants # None /\ Len(self.constants[1]) > 0 /\ const = None
       THEN Raise("ValueError", "requires a constants dictionary")
       ELSE Return(None)

\* DerivedVariable.computeValues: the two guards every subclass runs first
\* through super(); out is NotImplemented when both pass.
DerivedVariable_computeValues(self, checked, const) ==
  IF ~checked THEN Raise("DerivedVariableError", "prerequisites not satisfied")
  ELSE IF self.constants # None /\ Len(self.constants[1]) > 0
          /\ (const = None \/ DOMAIN const[1] = {})
       THEN Raise("ValueError", "requires a constants dictionary")
       ELSE Return(None)

\* Rain.computeValues: RAINNC + RAINC
Rain_computeValues(self, checked, indata, delta, const) ==
  LET chk == DerivedVariable_computeValues(self, checked, const)
  IN IF chk.err # "none" THEN chk
     ELSE IF delta = Some(0) THEN Raise("ValueError", "delta=0")
     ELSE Return(Some([t \in 1..Len(indata.RAINNC) |->
                         AddField(indata.RAINNC[t], indata.RAINC[t])]))

\* DerivedVariable.aggregateValues(comdata, aggdata): comdata and aggdata
\* are None or an array
\* Variants of aggregateValues with one plausible slip each.
\* (a) the accumulator is overwritten by the chunk's sum instead of added to
OverwritingAggregate(self, comdata, aggdata) ==
  IF comdata = None THEN Raise("TypeError", "")
  ELSE IF Size(comdata[1]) > 0
  THEN IF aggdata = None
       THEN IF self.normalize
            THEN Raise("DerivedVariableError", "one-pass aggregation normalizes")
            ELSE IF self.ignoreNaN THEN Return(Some(NpNanMean(comdata[1])))
                 ELSE Return(Some(NpMean(comdata[1])))
       ELSE IF ~self.normalize
            THEN Raise("DerivedVariableError", "requires normalization")
            ELSE IF self.ignoreNaN THEN Return(Some(NpNanSum(comdata[1])))
                 ELSE Return(Some(NpSum(comdata[1])))
  ELSE Return(aggdata)
\* (b) the normalize guard of the one-pass branch is missing
UnguardedOnePassAggregate(self, comdata, aggdata) ==
  IF comdata = None THEN Raise("TypeError", "")
  ELSE IF Size(comdata[1]) > 0
  THEN IF aggdata = None
       THEN IF self.ignoreNaN THEN Return(Some(NpNanMean(comdata[1])))
            ELSE Return(Some(NpMean(comdata[1])))
       ELSE IF ~self.normalize
            THEN Raise("DerivedVariableError", "requires normalization")
            ELSE IF self.ignoreNaN
                 THEN Return(Some(AddField(aggdata[1], NpNanSum(comdata[1]))))
                 ELSE Return(Some(AddField(aggdata[1], NpSum(comdata[1]))))
  ELSE Return(aggdata)
\* (c) the one-pass branch sums instead of averaging
SummingOnePassAggregate(self, comdata, aggdata) ==
  IF comdata = None THEN Raise("TypeError", "")
  ELSE IF Size(comdata[1]) > 0
  THEN IF aggdata = None
       THEN IF self.normalize
            THEN Raise("DerivedVariableError", "one-pass aggregation normalizes")
            ELSE IF self.ignoreNaN THEN Return(Some(NpNanSum(comdata[1])))
                 ELSE Return(Some(NpSum(comdata[1])))
       ELSE IF ~self.normalize
            THEN Raise("DerivedVariableError", "requires normalization")
            ELSE IF self.ignoreNaN
                 THEN Return(Some(AddField(aggdata[1], NpNanSum(comdata[1]))))
                 ELSE Return(Some(AddField(aggdata[1], NpSum(comdata[1]))))
  ELSE Return(aggdata)

\* A variant of DerivedVariable.aggregateValues with one plausible slip: the
\* chunk's mean, not its sum, is added to the accumulator
AveragingAggregate(self, comdata, aggdata) ==
  IF comdata = None THEN Raise("TypeError", "")
  ELSE IF Size(comdata[1]) > 0
  THEN IF aggdata = None
       THEN IF self.normalize
            THEN Raise("DerivedVariableError", "one-pass aggregation normalizes")
            ELSE IF self.ignoreNaN THEN Return(Some(NpNanMean(comdata[1])))
                 ELSE Return(Some(NpMean(comdata[1])))
       ELSE IF ~self.normalize
            THEN Raise("DerivedVariableError", "requires normalization")
            ELSE IF self.ignoreNaN
                 THEN Return(Some(AddField(aggdata[1], NpNanMean(comdata[1]))))
                 ELSE Return(Some(AddField(aggdata[1], NpMean(comdata[1]))))
  ELSE Return(aggdata)

DerivedVariable_aggregateValues(self, comdata, aggdata) ==
  IF comdata = None THEN Raise("TypeError", "")
  ELSE IF Size(comdata[1]) > 0
  THEN IF aggdata = None
       THEN IF self.normalize
            THEN Raise("DerivedVariableError", "one-pass aggregation normalizes")
            ELSE IF self.ignoreNaN THEN Return(Some(NpNanMean(comdata[1])))
                 ELSE Return(Some(NpMean(comdata[1])))
       ELSE IF ~self.normalize
            THEN Raise("DerivedVariableError", "requires normalization")
            ELSE IF self.ignoreNaN
                 THEN Return(Some(AddField(aggdata[1], NpNanSum(comdata[1]))))
                 ELSE Return(Some(AddField(aggdata[1], NpSum(comdata[1]))))
  ELSE Return(aggdata)

\* A variant of Extrema.aggregateValues with one plausible slip: the newest
\* chunk result replaces the accumulator
LastResultExtrema(self, comdata, aggdata) ==
  IF self.normalize
  THEN Raise("DerivedVariableError", "extrema should not be normalized")
  ELSE IF comdata # None /\ FieldSize(comdata[1]) > 0
  THEN Return(comdata)
  ELSE Return(aggdata)

\* A variant of Extrema.aggregateValues with one plausible slip: the
\* normalize flag is tested only once a chunk result is there
LenientExtrema(self, comdata, aggdata) ==
  IF comdata # None /\ FieldSize(comdata[1]) > 0
  THEN IF self.normalize
       THEN Raise("DerivedVariableError", "extrema should not be normalized")
       ELSE IF aggdata = None THEN Return(comdata)
       ELSE IF self.mode = 1
            THEN IF self.ignoreNaN
                 THEN Return(Some([g \in Grid |-> FMax(aggdata[1][g], comdata[1][g])]))
                 ELSE Return(Some([g \in Grid |-> Maximum(aggdata[1][g], comdata[1][g])]))
            ELSE IF self.ignoreNaN
                 THEN Return(Some([g \in Grid |-> FMin(aggdata[1][g], comdata[1][g])]))
                 ELSE Return(Some([g \in Grid |-> Minimum(aggdata[1][g], comdata[1][g])]))
  ELSE Return(aggdata)

\* a fold that keeps the result of the first chunk
FirstResultExtrema(self, comdata, aggdata) ==
  IF aggdata = None THEN Return(comdata) ELSE Return(aggdata)
\* Extrema.aggregateValues(comdata, aggdata)
Extrema_aggregateValues(self, comdata, aggdata) ==
  IF self.normalize
  THEN Raise("DerivedVariableError", "extrema should not be normalized")
  ELSE IF comdata # None /\ FieldSize(comdata[1]) > 0
  THEN IF aggdata = None THEN Return(comdata)
       ELSE IF self.mode = 1
            THEN IF self.ignoreNaN
                 THEN Return(Some([g \in Grid |-> FMax(aggdata[1][g], comdata[1][g])]))
                 ELSE Return(Some([g \in Grid |-> Maximum(aggdata[1][g], comdata[1][g])]))
            ELSE IF self.ignoreNaN
                 THEN Return(Some([g \in Grid |-> FMin(aggdata[1][g], comdata[1][g])]))
                 ELSE Return(Some([g \in Grid |-> Minimum(aggdata[1][g], comdata[1][g])]))
  ELSE Return(aggdata)


\* ------------------------------------------------- Extrema.computeValues ----
\* data[:n] and data[n:] along the time axis
Take(data, n) == SubSeq(data, 1, IF n < Len(data) THEN n ELSE Len(data))
Drop(data, n) == SubSeq(data, n + 1, Len(data))

\* Extrema.computeValues on indata[self.prerequisites[0]] = data, aggax = 0;
\* np.max of an array without time steps raises ValueError
Extrema_computeValues(self, checked, data, const) ==
  LET chk == DerivedVariable_computeValues(self, checked, const)
  IN IF chk.err # "none" THEN chk
     ELSE IF Len(data) = 0 THEN Raise("ValueError", "zero-size array")
     ELSE IF self.mode = 1
          THEN IF self.ignoreNaN THEN Return(Some(NpNanMax(data)))
               ELSE Return(Some(NpMax(data)))
          ELSE IF self.ignoreNaN THEN Return(Some(NpNanMin(data)))
               ELSE Return(Some(NpMin(data)))

\* a dictionary with one entry set
Put(dict, key, value) == [k \in DOMAIN dict \cup {key} |->
                            IF k = key THEN value ELSE dict[k]]

\* data.reshape((nint,ilen)+pape).mean(axis=1): the mean of each block
BlockMeans(data, nint, ilen) ==
  [b \in 1..nint |-> NpMean(SubSeq(data, (b - 1) * ilen + 1, b * ilen))]

\* A variant of MeanExtrema.computeValues with one plausible slip: without a
\* full block only the new samples are kept
ForgetfulMeanExtrema(self, checked, indata, delta, const, scratch) ==
  IF delta = 0 THEN Raise("ValueError", "no interval") @@ [tmp |-> scratch]
  ELSE LET key == self.tmpdata[1]
           data == IF key \in DOMAIN scratch THEN scratch[key] \o indata
                   ELSE indata
           lt == Len(data)
           ilen == self.interval \div delta
       IN IF ilen = 0 THEN Raise("ZeroDivisionError", "") @@ [tmp |-> scratch]
          ELSE LET nint == lt \div ilen
                   ui == ilen * nint
                   used == Take(data, ui)
                   rest == Drop(used, ui)
                   res == Extrema_computeValues(self, checked,
                                                BlockMeans(used, nint, ilen), const)
               IN IF nint > 0
                  THEN IF res.err # "none" THEN res @@ [tmp |-> scratch]
                       ELSE res @@ [tmp |-> Put(scratch, key, rest)]
                  ELSE Return(None) @@ [tmp |-> Put(scratch, key, indata)]

\* MeanExtrema.computeValues(indata, delta=delta, const=const, tmp=scratch)
\* with indata[self.prerequisites[0]] = indata and aggax = 0; the result
\* carries the scratch dictionary as the call leaves it
MeanExtrema_computeValues(self, checked, indata, delta, const, scratch) ==
  IF delta = 0 THEN Raise("ValueError", "no interval") @@ [tmp |-> scratch]
  ELSE LET key == self.tmpdata[1]
           data == IF key \in DOMAIN scratch THEN scratch[key] \o indata
                   ELSE indata
           lt == Len(data)
           ilen == self.interval \div delta
       IN IF ilen = 0 THEN Raise("ZeroDivisionError", "") @@ [tmp |-> scratch]
          ELSE LET nint == lt \div ilen
                   ui == ilen * nint
                   used == Take(data, ui)
                   rest == Drop(used, ui)
                   res == Extrema_computeValues(self, checked,
                                                BlockMeans(used, nint, ilen), const)
               IN IF nint > 0
                  THEN IF res.err # "none" THEN res @@ [tmp |-> scratch]
                       ELSE res @@ [tmp |-> Put(scratch, key, rest)]
                  ELSE Return(None) @@ [tmp |-> Put(scratch, key, data)]

\* ---------------------------------------- ConsecutiveExtrema.computeValues ----
\* data[t,:] > self.threshold (above) or < self.threshold (below); a
\* comparison with NaN is False
Exceeds(self, x) == IF self.thresmode = 1 THEN Greater(x, self.threshold)
                    ELSE Less(x, self.threshold)

\* the loop "for t in range(tlen)" from step t on: the counter xcnt and the
\* record maxdata after the last step
RECURSIVE March(_, _, _, _, _, _)
March(self, per, data, t, xcnt, maxdata) ==
  IF t > Len(data) THEN [xcnt |-> xcnt, maxdata |-> maxdata]
  ELSE LET xmask == [g \in Grid |-> Exceeds(self, data[t][g])]
           xnew == [g \in Grid |-> IF xmask[g] THEN R(0)
                                   ELSE Mul(R(xcnt[g]), per)]
       IN March(self, per, data, t + 1,
                [g \in Grid |-> IF xmask[g] THEN xcnt[g] + 1 ELSE 0],
                [g \in Grid |-> Maximum(maxdata[g], xnew[g])])

\* np.ma.masked_where(np.isnan(data).sum(axis=0) > 0, maxdata)
MaskWhereNaN(data, maxdata) ==
  [g \in Grid |-> IF \E t \in 1..Len(data) : IsNaN(data[t][g]) THEN Masked
                  ELSE maxdata[g]]

\* A variant of ConsecutiveExtrema.computeValues with one plausible slip:
\* every call starts its counter at zero
RestartingConsecutiveExtrema(self, checked, per, indata, delta, const, scratch) ==
  LET chk == DerivedVariable_computeValues(self, checked, const)
      key == self.tmpdata[1]
  IN IF chk.err # "none" THEN chk @@ [tmp |-> scratch, period |-> per]
     ELSE IF "COX_DELTA" \in DOMAIN scratch /\ delta # scratch["COX_DELTA"]
     THEN Raise("NotImplementedError", "output interval is not constant")
            @@ [tmp |-> scratch, period |-> per]
     ELSE LET tmp1 == Put(scratch, "COX_DELTA", delta)
              per1 == IF per = R(0) THEN Q(delta, lengthofday) ELSE per
              xcnt == [g \in Grid |-> 0]
              end == March(self, per1, indata, 1, xcnt, Zeros)
          IN Return(Some(IF self.ignoreNaN
                         THEN MaskWhereNaN(indata, end.maxdata)
                         ELSE end.maxdata))
               @@ [tmp |-> Put(tmp1, key, end.xcnt), period |-> per1]

\* A variant of ConsecutiveExtrema.computeValues with one plausible slip:
\* the new interval is recorded before it is compared
RecordingConsecutiveExtrema(self, checked, per, indata, delta, const, scratch) ==
  LET chk == DerivedVariable_computeValues(self, checked, const)
      key == self.tmpdata[1]
  IN IF chk.err # "none" THEN chk @@ [tmp |-> scratch, period |-> per]
     ELSE IF "COX_DELTA" \in DOMAIN scratch /\ delta # scratch["COX_DELTA"]
     THEN Raise("NotImplementedError", "output interval is not constant")
            @@ [tmp |-> Put(scratch, "COX_DELTA", delta), period |-> per]
     ELSE LET tmp1 == Put(scratch, "COX_DELTA", delta)
              per1 == IF per = R(0) THEN Q(delta, lengthofday) ELSE per
              xcnt == IF key \in DOMAIN tmp1 THEN tmp1[key]
                      ELSE [g \in Grid |-> 0]
              end == March(self, per1, indata, 1, xcnt, Zeros)
          IN Return(Some(IF self.ignoreNaN
                         THEN MaskWhereNaN(indata, end.maxdata)
                         ELSE end.maxdata))
               @@ [tmp |-> Put(tmp1, key, end.xcnt), period |-> per1]

\* ConsecutiveExtrema.computeValues(indata, delta=delta, const=const,
\* tmp=scratch) with indata[self.prerequisites[0]] = indata, aggax = 0 and
\* self.period = per; the result carries scratch and self.period as the call
\* leaves them
ConsecutiveExtrema_computeValues(self, checked, per, indata, delta, const, scratch) ==
  LET chk == DerivedVariable_computeValues(self, checked, const)
      key == self.tmpdata[1]
  IN IF chk.err # "none" THEN chk @@ [tmp |-> scratch, period |-> per]
     ELSE IF "COX_DELTA" \in DOMAIN scratch /\ delta # scratch["COX_DELTA"]
     THEN Raise("NotImplementedError", "output interval is not constant")
            @@ [tmp |-> scratch, period |-> per]
     ELSE LET tmp1 == Put(scratch, "COX_DELTA", delta)
              per1 == IF per = R(0) THEN Q(delta, lengthofday) ELSE per
              xcnt == IF key \in DOMAIN tmp1 THEN tmp1[key]
                      ELSE [g \in Grid |-> 0]
              end == March(self, per1, indata, 1, xcnt, Zeros)
          IN Return(Some(IF self.ignoreNaN
                         THEN MaskWhereNaN(indata, end.maxdata)
                         ELSE end.maxdata))
               @@ [tmp |-> Put(tmp1, key, end.xcnt), period |-> per1]

\* A variant of WetDays.computeValues that compares with >= instead of >.
NonStrictWetDays(self, checked, indata, delta, const, scratch) ==
  LET chk == DerivedVariable_computeValues(self, checked, const)
      tmp1 == IF scratch = None THEN scratch
              ELSE Some(Put(scratch[1], "WETDAYS_DELTA", delta))
  IN IF chk.err # "none" THEN chk @@ [tmp |-> scratch]
     ELSE IF /\ scratch # None /\ "WETDAYS_DELTA" \in DOMAIN scratch[1]
             /\ delta # scratch[1]["WETDAYS_DELTA"]
     THEN Raise("NotImplementedError", "output interval is assumed constant")
            @@ [tmp |-> scratch]
     ELSE IF self.ignoreNaN
     THEN Return(Some([t \in 1..Len(indata) |-> [g \in Grid |->
                    IF IsNaN(indata[t][g]) THEN NaN
                    ELSE IF LessEq(self.threshold, indata[t][g]) THEN R(1)
                    ELSE R(0)]])) @@ [tmp |-> tmp1]
     ELSE Return(Some([t \in 1..Len(indata) |-> [g \in Grid |->
                    LessEq(self.threshold, indata[t][g])]])) @@ [tmp |-> tmp1]

\* ----------------------------------------------------- WetDays.computeValues ----
\* WetDays.computeValues(indata, delta=delta, const=const, tmp=scratch) with
\* indata[self.rain] = indata (scratch None: no scratch dictionary); the
\* result carries the scratch dictionary as the call leaves it
WetDays_computeValues(self, checked, indata, delta, const, scratch) ==
  LET chk == DerivedVariable_computeValues(self, checked, const)
      tmp1 == IF scratch = None THEN scratch
              ELSE Some(Put(scratch[1], "WETDAYS_DELTA", delta))
  IN IF chk.err # "none" THEN chk @@ [tmp |-> scratch]
     ELSE IF /\ scratch # None /\ "WETDAYS_DELTA" \in DOMAIN scratch[1]
             /\ delta # scratch[1]["WETDAYS_DELTA"]
     THEN Raise("NotImplementedError", "output interval is assumed constant")
            @@ [tmp |-> scratch]
     ELSE IF self.ignoreNaN
     THEN Return(Some([t \in 1..Len(indata) |-> [g \in Grid |->
                    IF IsNaN(indata[t][g]) THEN NaN
                    ELSE IF Greater(indata[t][g], self.threshold) THEN R(1)
                    ELSE R(0)]])) @@ [tmp |-> tmp1]
     ELSE Return(Some([t \in 1..Len(indata) |-> [g \in Grid |->
                    Greater(indata[t][g], self.threshold)]])) @@ [tmp |-> tmp1]

\* ------------------------------------------- TimeOfConvection.computeValues ----
\* a time stamp '%Y-%m-%d_%H:%M:00' is [day, min]: the day number and the
\* minute of the day; the minutes between two stamps
MinutesBetween(time, toss) ==
  (time.day * 1440 + time.min) - (toss.day * 1440 + toss.min)

\* np.diff(a) of a three-dimensional array: differences along the last axis
NpDiff(a) ==
  [t \in 1..Len(a) |-> [y \in 1..Len(a[t]) |->
     [x \in 1..(Len(a[t][y]) - 1) |-> a[t][y][x + 1] - a[t][y][x]]]]
\* np.all(a == v) of a three-dimensional array
NpAllEqual(a, v) ==
  \A t \in 1..Len(a) : \A y \in 1..Len(a[t]) : \A x \in 1..Len(a[t][y]) :
    a[t][y][x] = v

\* A variant of TimeOfConvection.computeValues that stores the simulation
\* start of every chunk, whether or not one is stored already.
OverwritingTimeOfConvection(self, checked, indata, const) ==
  LET chk == DerivedVariable_computeValues(self, checked, const)
      times == indata.Times
      tcv == indata.TRAINCVMAX
  IN IF chk.err # "none" THEN chk @@ [const |-> const]
     ELSE IF Len(times) # Len(tcv)
     THEN Raise("AssertionError", "") @@ [const |-> const]
     ELSE IF "XLONG_360" \notin DOMAIN const[1] /\ "XLONG" \notin DOMAIN const[1]
     THEN Raise("KeyError", "XLONG") @@ [const |-> const]
     ELSE
       LET c1 == IF "XLONG_360" \notin DOMAIN const[1]
                 THEN Put(const[1], "XLONG_360",
                          [g \in Grid |->
                             IF Less(const[1]["XLONG"][g], R(0))
                             THEN Add(R(360), const[1]["XLONG"][g])
                             ELSE const[1]["XLONG"][g]])
                 ELSE const[1]
           xlon == c1["XLONG_360"]
       IN IF Len(times) = 0
          THEN Raise("IndexError", "") @@ [const |-> Some(c1)]
          ELSE
            LET c2 == Put(Put(c1, "TimeOfSimulationStart", times[1]),
                          "DeltaToSS",
                          (IF times[1].min # 0 THEN times[1].min ELSE 0)
                            + self.time_offset)
                toss == c2["TimeOfSimulationStart"]
                dtoss == c2["DeltaToSS"]
                \* deltas.reshape((len(deltas),1,1))
                deltas == [t \in 1..Len(times) |->
                             <<<<MinutesBetween(times[t], toss)>>>>]
                tod(t, g) ==
                  LET x0 == Sub(tcv[t][g], R(deltas[t][1][1] - 1440))
                      x1 == IF LessEq(x0, R(0)) THEN NaN ELSE x0
                      x2 == Add(x1, Mul(R(4), xlon[g]))
                      x3 == IF dtoss > 0 THEN Add(x2, R(dtoss)) ELSE x2
                  IN Mul(Mod(x3, 1440), R(60))
            IN IF ~NpAllEqual(NpDiff(deltas), 1440)
               THEN Raise("NotImplementedError", "only daily output intervals")
                      @@ [const |-> Some(c2)]
               ELSE Return(Some([t \in 1..Len(times) |->
                                   [g \in Grid |-> tod(t, g)]]))
                      @@ [const |-> Some(c2)]

\* TimeOfConvection.computeValues(indata, const=const) with indata.Times
\* and indata.TRAINCVMAX; const is None or Some(dictionary), and the result
\* carries the constants dictionary as the call leaves it
TimeOfConvection_computeValues(self, checked, indata, const) ==
  LET chk == DerivedVariable_computeValues(self, checked, const)
      times == indata.Times
      tcv == indata.TRAINCVMAX
  IN IF chk.err # "none" THEN chk @@ [const |-> const]
     ELSE IF Len(times) # Len(tcv)
     THEN Raise("AssertionError", "") @@ [const |-> const]
     ELSE IF "XLONG_360" \notin DOMAIN const[1] /\ "XLONG" \notin DOMAIN const[1]
     THEN Raise("KeyError", "XLONG") @@ [const |-> const]
     ELSE
       LET c1 == IF "XLONG_360" \notin DOMAIN const[1]
                 THEN Put(const[1], "XLONG_360",
                          [g \in Grid |->
                             IF Less(const[1]["XLONG"][g], R(0))
                             THEN Add(R(360), const[1]["XLONG"][g])
                             ELSE const[1]["XLONG"][g]])
                 ELSE const[1]
           xlon == c1["XLONG_360"]
       IN IF "TimeOfSimulationStart" \notin DOMAIN c1 /\ Len(times) = 0
          THEN Raise("IndexError", "") @@ [const |-> Some(c1)]
          ELSE
            LET c2 == IF "TimeOfSimulationStart" \notin DOMAIN c1
                      THEN Put(Put(c1, "TimeOfSimulationStart", times[1]),
                               "DeltaToSS",
                               (IF times[1].min # 0 THEN times[1].min ELSE 0)
                                 + self.time_offset)
                      ELSE c1
                toss == c2["TimeOfSimulationStart"]
                dtoss == c2["DeltaToSS"]
                \* deltas.reshape((len(deltas),1,1))
                deltas == [t \in 1..Len(times) |->
                             <<<<MinutesBetween(times[t], toss)>>>>]
                tod(t, g) ==
                  LET x0 == Sub(tcv[t][g], R(deltas[t][1][1] - 1440))
                      x1 == IF LessEq(x0, R(0)) THEN NaN ELSE x0
                      x2 == Add(x1, Mul(R(4), xlon[g]))
                      x3 == IF dtoss > 0 THEN Add(x2, R(dtoss)) ELSE x2
                  IN Mul(Mod(x3, 1440), R(60))
            IN IF ~NpAllEqual(NpDiff(deltas), 1440)
               THEN Raise("NotImplementedError", "only daily output intervals")
                      @@ [const |-> Some(c2)]
               ELSE Return(Some([t \in 1..Len(times) |->
                                   [g \in Grid |-> tod(t, g)]]))
                      @@ [const |-> Some(c2)]

\* ======================================================================
\* The variables declared linear=True: computed per time step, or once on
\* time-averaged prerequisite fields.
\* ======================================================================
\* RunOff()
RunOff ==
  [DerivedVariable("Runoff", <<"SFROFF", "UDROFF">>, None, TRUE, FALSE, TRUE)
     EXCEPT !.cls = "RunOff"]

\* NetRadiation()
NetRadiation ==
  [DerivedVariable("NetRadiation",
                   <<"ACSWDNB", "ACSWUPB", "ACLWDNB", "ACLWUPB">>,
                   None, TRUE, FALSE, TRUE)
     EXCEPT !.cls = "NetRadiation"]

\* WetDayPrecip.__init__(threshold, rain, ignoreNaN): threshold in mm/day
WetDayPrecip(threshold, rain, ignoreNaN) ==
  LET tag == Format03d((10 * threshold[1]) \div threshold[2])
  IN [DerivedVariable("WetDayPrecip_" \o tag,
                      <<"WetDayRain_" \o tag, "WetDays_" \o tag>>,
                      None, TRUE, ignoreNaN, TRUE)
        EXCEPT !.cls = "WetDayPrecip"]
       @@ [threshold |-> Q(threshold[1], threshold[2] * 86400),
           wetdays |-> "WetDays_" \o tag, wetdayrain |-> "WetDayRain_" \o tag]

\* x / y for y # 0
Divide(x, y) ==
  IF IsNaN(x) \/ IsNaN(y) THEN NaN
  ELSE IF y[1] < 0 THEN Mul(x, <<-y[2], -y[1]>>)
  ELSE Mul(x, <<y[2], y[1]>>)

\* A variant of RunOff.computeValues that adds UDROFF into the SFROFF array
\* in place (indata['SFROFF'] += indata['UDROFF']).
InPlaceRunOff(self, checked, indata, delta, const) ==
  LET chk == DerivedVariable_computeValues(self, checked, const)
      sum == [t \in 1..Len(indata.SFROFF) |->
                AddField(indata.SFROFF[t], indata.UDROFF[t])]
  IN IF chk.err # "none" THEN chk @@ [indata |-> indata]
     ELSE Return(Some(sum)) @@ [indata |-> [indata EXCEPT !.SFROFF = sum]]

\* RunOff.computeValues: indata['SFROFF'] + indata['UDROFF'], a new array;
\* the result carries indata as the call leaves it
RunOff_computeValues(self, checked, indata, delta, const) ==
  LET chk == DerivedVariable_computeValues(self, checked, const)
  IN IF chk.err # "none" THEN chk @@ [indata |-> indata]
     ELSE Return(Some([t \in 1..Len(indata.SFROFF) |->
                         AddField(indata.SFROFF[t], indata.UDROFF[t])]))
            @@ [indata |-> indata]

\* NetRadiation.computeValues: evaluate('SWDN - SWUP + LWDN - LWUP')
NetRadiation_computeValues(self, checked, indata, delta, const) ==
  LET chk == DerivedVariable_computeValues(self, checked, const)
  IN IF chk.err # "none" THEN chk @@ [indata |-> indata]
     ELSE Return(Some([t \in 1..Len(indata.ACSWDNB) |-> [g \in Grid |->
                    Sub(Add(Sub(indata.ACSWDNB[t][g], indata.ACSWUPB[t][g]),
                            indata.ACLWDNB[t][g]),
                        indata.ACLWUPB[t][g])]]))
            @@ [indata |-> indata]

\* WetDayPrecip.computeValues:
\* np.where(wetdays == 0, 0., wetdayrain / wetdays)
WetDayPrecip_computeValues(self, checked, indata, delta, const) ==
  LET chk == DerivedVariable_computeValues(self, checked, const)
      wetdays == indata[self.wetdays]
      wetdayrain == indata[self.wetdayrain]
  IN IF chk.err # "none" THEN chk @@ [indata |-> indata]
     ELSE Return(Some([t \in 1..Len(wetdays) |-> [g \in Grid |->
                    IF wetdays[t][g] = R(0) THEN R(0)
                    ELSE Divide(wetdayrain[t][g], wetdays[t][g])]]))
            @@ [indata |-> indata]

\* var.computeValues(indata, aggax=0, delta=delta, const=None, tmp=None) of
\* a linear variable, by class
LinearComputeValues(self, checked, indata, delta) ==
  CASE self.cls = "Rain" ->
         Rain_computeValues(self, checked, indata, delta, None)
           @@ [indata |-> indata]
    [] self.cls = "RunOff" ->
         RunOff_computeValues(self, checked, indata, delta, None)
    [] self.cls = "NetRadiation" ->
         NetRadiation_computeValues(self, checked, indata, delta, None)
    [] self.cls = "WetDayPrecip" ->
         WetDayPrecip_computeValues(self, checked, indata, delta, None)


\* ======================================================================
\* The indicator variables: WetDays, FrostDays, SummerDays.
\* ======================================================================
\* '{:+02d}'.format(n)
FormatSigned02d(n) == IF n < 0 THEN "-" \o ToString(-n) ELSE "+" \o ToString(n)

\* 273.15, the offset from Celsius to Kelvin
Kelvin == Q(27315, 100)

\* FrostDays.__init__(threshold, temp, ignoreNaN): threshold in Celsius
FrostDays(threshold, temp, ignoreNaN) ==
  [DerivedVariable("FrostDays_" \o FormatSigned02d(threshold[1] \div threshold[2]),
                   <<temp>>, None, FALSE, ignoreNaN, TRUE)
     EXCEPT !.cls = "FrostDays"]
    @@ [threshold |-> Add(threshold, Kelvin), temp |-> temp]

\* SummerDays.__init__(threshold, temp, ignoreNaN): threshold in Celsius
SummerDays(threshold, temp, ignoreNaN) ==
  [DerivedVariable("SummerDays_" \o FormatSigned02d(threshold[1] \div threshold[2]),
                   <<temp>>, None, FALSE, ignoreNaN, TRUE)
     EXCEPT !.cls = "SummerDays"]
    @@ [threshold |-> Add(threshold, Kelvin), temp |-> temp]

\* A variant of FrostDays.computeValues whose NaN-safe branch stops after
\* the comparison (the np.isnan pass is missing).
UnmaskedFrostDays(self, checked, indata, delta, const) ==
  LET chk == DerivedVariable_computeValues(self, checked, const)
  IN IF chk.err # "none" THEN chk
     ELSE IF delta # Some(lengthofday) /\ self.temp # "T2"
     THEN IF delta = None THEN Raise("TypeError", "format of None")
          ELSE Raise("ValueError", "extreme values are supposed to be daily")
     ELSE IF self.ignoreNaN
     THEN Return(Some([t \in 1..Len(indata) |-> [g \in Grid |->
                    IF Less(indata[t][g], self.threshold) THEN R(1)
                    ELSE R(0)]]))
     ELSE Return(Some([t \in 1..Len(indata) |-> [g \in Grid |->
                    Less(indata[t][g], self.threshold)]]))

\* FrostDays.computeValues: indata is indata[self.temp]
FrostDays_computeValues(self, checked, indata, delta, const) ==
  LET chk == DerivedVariable_computeValues(self, checked, const)
  IN IF chk.err # "none" THEN chk
     ELSE IF delta # Some(lengthofday) /\ self.temp # "T2"
     THEN IF delta = None THEN Raise("TypeError", "format of None")
          ELSE Raise("ValueError", "extreme values are supposed to be daily")
     ELSE IF self.ignoreNaN
     THEN Return(Some([t \in 1..Len(indata) |-> [g \in Grid |->
                    IF IsNaN(indata[t][g]) THEN NaN
                    ELSE IF Less(indata[t][g], self.threshold) THEN R(1)
                    ELSE R(0)]]))
     ELSE Return(Some([t \in 1..Len(indata) |-> [g \in Grid |->
                    Less(indata[t][g], self.threshold)]]))

\* SummerDays.computeValues: indata is indata[self.temp]
SummerDays_computeValues(self, checked, indata, delta, const) ==
  LET chk == DerivedVariable_computeValues(self, checked, const)
  IN IF chk.err # "none" THEN chk
     ELSE IF delta # Some(lengthofday) /\ self.temp # "T2"
     THEN IF delta = None THEN Raise("TypeError", "format of None")
          ELSE Raise("ValueError", "extreme values are supposed to be daily")
     ELSE IF self.ignoreNaN
     THEN Return(Some([t \in 1..Len(indata) |-> [g \in Grid |->
                    IF IsNaN(indata[t][g]) THEN NaN
                    ELSE IF Greater(indata[t][g], self.threshold) THEN R(1)
                    ELSE R(0)]]))
     ELSE Return(Some([t \in 1..Len(indata) |-> [g \in Grid |->
                    Greater(indata[t][g], self.threshold)]]))

\* var.computeValues(indata, aggax=0, delta=delta, const=None, tmp=scratch)
\* of an indicator variable, by class; every result carries the scratch
\* dictionary as the call leaves it
IndicatorComputeValues(self, checked, indata, delta, scratch) ==
  CASE self.cls = "WetDays" ->
         WetDays_computeValues(self, checked, indata, delta, None, scratch)
    [] self.cls = "FrostDays" ->
         FrostDays_computeValues(self, checked, indata, delta, None)
           @@ [tmp |-> scratch]
    [] self.cls = "SummerDays" ->
         SummerDays_computeValues(self, checked, indata, delta, None)
           @@ [tmp |-> scratch]

\* ======================================================================
\* pressureIntegral and the column integrals.
\* p is a sequence (time) of sequences (levels) of pressures; var and T are
\* sequences (time) of sequences (levels) of fields.
\* ======================================================================
\* np.nan_to_num on a finite-or-NaN value
NanToNum(x) == IF IsNaN(x) THEN R(0) ELSE x

\* one panel of scipy's _basic_simps for unevenly spaced samples, starting
\* at sample i: hsum/6 * (y0*(2 - h1/h0) + y1*hsum*hsum/(h0*h1)
\* + y2*(2 - h0/h1))
SimpsPanel(y, x, i) ==
  LET h0 == Sub(x[i + 1], x[i])
      h1 == Sub(x[i + 2], x[i + 1])
      hsum == Add(h0, h1)
  IN Mul(DivInt(hsum, 6),
         Add(Add(Mul(y[i], Sub(R(2), Divide(h1, h0))),
                 Mul(y[i + 1], Mul(Divide(hsum, h0), Divide(hsum, h1)))),
             Mul(y[i + 2], Sub(R(2), Divide(h0, h1)))))

\* _basic_simps(y, start, stop, x): the panels starting at the samples
\* i, i+2, ... up to stop (counted from 1)
RECURSIVE BasicSimps(_, _, _, _)
BasicSimps(y, x, i, stop) ==
  IF i > stop THEN R(0)
  ELSE Add(SimpsPanel(y, x, i), BasicSimps(y, x, i + 2, stop))

\* simps(y, x, even='first') along one column of at least 3 samples: with
\* an even number of samples the last interval is a trapezoid
Simps(y, x) ==
  LET n == Len(y)
  IN IF n % 2 = 1 THEN BasicSimps(y, x, 1, n - 2)
     ELSE Add(Mul(Q(1, 2), Mul(Sub(x[n], x[n - 1]), Add(y[n], y[n - 1]))),
              BasicSimps(y, x, 1, n - 3))

\* pressureIntegral(var, T, p, RMg)
pressureIntegral(var, T, p, RMg) ==
  IF ~(Len(T) = Len(p) /\ \A t \in 1..Len(T) : Len(T[t]) = Len(p[t]))
  THEN Raise("AssertionError", "")
  ELSE IF ~(\A l \in 1..(Len(p[1]) - 1) : Less(p[1][l + 1], p[1][l]))
  THEN Raise("AssertionError",
             "The pressure axis has to decrease monotonically.")
  ELSE LET nlev == Len(p[1])
           pax == [i \in 1..(nlev + 2) |->
                     IF i = 1 THEN R(-100000)
                     ELSE IF i = nlev + 2 THEN R(0)
                     ELSE Mul(R(-1), p[1][i - 1])]
           tmpdata(t, g) ==
             [i \in 1..(nlev + 2) |->
                IF i = 1 \/ i = nlev + 2 THEN R(0)
                ELSE Divide(Mul(Mul(RMg, NanToNum(var[t][i - 1][g])),
                                NanToNum(T[t][i - 1][g])),
                            p[t][i - 1])]
       IN Return(Some([t \in 1..Len(T) |-> [g \in Grid |->
                         Simps(tmpdata(t, g), pax)]]))

\* ColumnWater(): RMg = R / (Mh2o g) = 8.3144621 / (0.01802 * 9.80616),
\* here to two decimals
ColumnWater ==
  [DerivedVariable("ColumnWater", <<"T_PL", "P_PL", "WaterDensity">>,
                   None, FALSE, FALSE, TRUE)
     EXCEPT !.cls = "ColumnWater"] @@ [RMg |-> Q(4705, 100)]

\* ColumnWater.computeValues
ColumnWater_computeValues(self, checked, indata, delta, const) ==
  LET chk == DerivedVariable_computeValues(self, checked, const)
  IN IF chk.err # "none" THEN chk
     ELSE pressureIntegral(indata.WaterDensity, indata.T_PL, indata.P_PL,
                           self.RMg)

\* ======================================================================
\* ctrDiff and the arrays it works on.
\* An n-dimensional array is [shape, val]: shape is the tuple of axis
\* lengths, val maps every index tuple (indices counted from 0) to a value.
\* Anything that is not an ndarray or not a number is None here.
\* ======================================================================
Indices(shape) ==
  IF Len(shape) = 0 THEN {<< >>}
  ELSE LET top == CHOOSE m \in {shape[k] : k \in 1..Len(shape)} :
                    \A k \in 1..Len(shape) : shape[k] <= m
       IN {ix \in [1..Len(shape) -> 0..(top - 1)] :
             \A k \in 1..Len(shape) : ix[k] < shape[k]}

\* a.transpose(axes): axes is the tuple of the old axis numbers (from 0) in
\* their new order
Transpose(a, axes) ==
  LET shape == [k \in 1..Len(axes) |-> a.shape[axes[k] + 1]]
      old(ix) == [j \in 1..Len(axes) |->
                    ix[CHOOSE k \in 1..Len(axes) : axes[k] = j - 1]]
  IN CHOOSE r \in {[shape |-> shape,
                    val |-> [ix \in Indices(shape) |-> b.val[old(ix)]]] :
                     b \in {a}} : TRUE

\* np.rollaxis(a, axis, start): a negative axis or start counts from the end
RollAxis(a, axis, start) ==
  LET n == Len(a.shape)
      ax == IF axis < 0 THEN axis + n ELSE axis
      st0 == IF start < 0 THEN start + n ELSE start
      st == IF ax < st0 THEN st0 - 1 ELSE st0
      \* the other axes in order, then ax inserted at position st
      rest(k) == IF k < ax THEN k ELSE k + 1
      axes == [k \in 1..n |-> IF k - 1 < st THEN rest(k - 1)
                              ELSE IF k - 1 = st THEN ax ELSE rest(k - 2)]
  IN IF ax = st THEN a ELSE Transpose(a, axes)

\* lines 124-137 of ctrDiff: the differences along axis 0 of the rolled
\* array
CentralDifferences(rolled, delta) ==
  LET n == rolled.shape[1]
      prev(ix) == [ix EXCEPT ![1] = @ - 1]
      next(ix) == [ix EXCEPT ![1] = @ + 1]
      \* outdata[1:,:] = np.diff(data, n=1, axis=0)
      out1(ix) == IF ix[1] >= 1
                  THEN Sub(rolled.val[ix], rolled.val[prev(ix)])
                  ELSE R(0)
      \* outdata[0:-1,:] += outdata[1:,:]
      out2(ix) == IF ix[1] <= n - 2 THEN Add(out1(ix), out1(next(ix)))
                  ELSE out1(ix)
      interior(ix) == 1 <= ix[1] /\ ix[1] <= n - 2
      out3(ix) == IF delta = R(1)
                  THEN IF interior(ix) THEN DivInt(out2(ix), 2) ELSE out2(ix)
                  ELSE IF interior(ix)
                       THEN Divide(out2(ix), Mul(R(2), delta))
                       ELSE Divide(out2(ix), delta)
  IN [shape |-> rolled.shape,
      val |-> [ix \in Indices(rolled.shape) |-> out3(ix)]]

\* ctrDiff(data, axis, delta); the result carries data as the call leaves it
ctrDiff(data, axis, delta) ==
  IF data = None THEN Raise("TypeError", "") @@ [data |-> data]
  ELSE IF delta = None THEN Raise("TypeError", "") @@ [data |-> data]
  ELSE CHOOSE r \in
         {Return(Some(IF axis # 0 THEN RollAxis(outdata, 0, axis + 1)
                      ELSE outdata)) @@ [data |-> data] :
            outdata \in
              {CentralDifferences(rolled, delta) :
                 rolled \in {IF axis # 0 THEN RollAxis(data, axis, 0)
                             ELSE data}}} : TRUE

\* ======================================================================
\* OrographicIndex: surface winds projected on the topographic gradient.
\* ======================================================================
\* OrographicIndex()
OrographicIndex ==
  [DerivedVariable("OrographicIndex", <<"U10", "V10">>,
                   Some(<<"HGT", "DY", "DX">>), FALSE, FALSE, TRUE)
     EXCEPT !.cls = "OrographicIndex"]

\* lines 917-922 (key hgtgrd_sn, axis 1, spacing DY) and 923-928 (key
\* hgtgrd_we, axis 2, spacing DX) of OrographicIndex.computeValues: s is
\* [err, const], the error raised so far and the constants dictionary
HeightGradient(s, key, axis, spacing) ==
  IF s.err # "none" \/ key \in DOMAIN s.const THEN s
  ELSE IF "HGT" \notin DOMAIN s.const \/ spacing \notin DOMAIN s.const
  THEN [err |-> "KeyError", const |-> s.const]
  ELSE CHOOSE r \in
         {IF d.err # "none" THEN [err |-> d.err, const |-> s.const]
          ELSE [err |-> "none", const |-> Put(s.const, key, d.out[1])] :
            d \in {ctrDiff(s.const["HGT"], axis, s.const[spacing])}} : TRUE

\* lines 930-933: evaluate('U * hgtgrd_we + V * hgtgrd_sn'), the gradients
\* of shape (1, south_north, west_east) broadcast along time
OrographicProjection(indata, s) ==
  IF s.err # "none" THEN Raise(s.err, "") @@ [const |-> Some(s.const)]
  ELSE LET U == indata.U10
           V == indata.V10
           hgtgrd_sn == s.const["hgtgrd_sn"]
           hgtgrd_we == s.const["hgtgrd_we"]
           flat(ix) == [ix EXCEPT ![1] = 0]
       IN Return(Some(
            [shape |-> U.shape,
             val |-> [ix \in Indices(U.shape) |->
                        Add(Mul(U.val[ix], hgtgrd_we.val[flat(ix)]),
                            Mul(V.val[ix], hgtgrd_sn.val[flat(ix)]))]]))
            @@ [const |-> Some(s.const)]

\* OrographicIndex.computeValues: const is None or Some(dict); the result
\* carries the constants dictionary as the call leaves it.  U10 and V10 are
\* (time, south_north, west_east) arrays, HGT is (1, south_north, west_east).
OrographicIndex_computeValues(self, checked, indata, const) ==
  LET chk == DerivedVariable_computeValues(self, checked, const)
  IN IF chk.err # "none" THEN chk @@ [const |-> const]
     ELSE CHOOSE r \in
            {OrographicProjection(indata, s2) :
               s2 \in {HeightGradient(s1, "hgtgrd_we", 2, "DX") :
                  s1 \in {HeightGradient([err |-> "none", const |-> const[1]],
                                         "hgtgrd_sn", 1, "DY")}}} : TRUE

\* ------------------------------------- LiquidPrecip_SR, SolidPrecip_SR ----
\* LiquidPrecipSR()
LiquidPrecipSR ==
  [DerivedVariable("LiquidPrecip_SR", <<"RAIN", "SR">>, None, FALSE, FALSE,
                   TRUE)
     EXCEPT !.cls = "LiquidPrecipSR"]

\* SolidPrecipSR()
SolidPrecipSR ==
  [DerivedVariable("SolidPrecip_SR", <<"RAIN", "SR">>, None, FALSE, FALSE,
                   TRUE)
     EXCEPT !.cls = "SolidPrecipSR"]

\* np.max(data) over every axis: NaN if any entry is NaN
ArrayMax(data) ==
  MaxSeq([k \in 1..Len(data) |-> Maximum(data[k].sw, data[k].ne)])

\* LiquidPrecipSR.computeValues: RAIN * (1 - SR / 2.) if np.max(SR) > 1,
\* else RAIN * (1 - SR)
LiquidPrecipSR_computeValues(self, checked, indata, delta, const) ==
  LET chk == DerivedVariable_computeValues(self, checked, const)
      RAIN == indata.RAIN
      SR == indata.SR
  IN IF chk.err # "none" THEN chk
     ELSE IF Greater(ArrayMax(SR), R(1))
     THEN Return(Some([t \in 1..Len(RAIN) |-> [g \in Grid |->
                    Mul(RAIN[t][g], Sub(R(1), Divide(SR[t][g], R(2))))]]))
     ELSE Return(Some([t \in 1..Len(RAIN) |-> [g \in Grid |->
                    Mul(RAIN[t][g], Sub(R(1), SR[t][g]))]]))

\* SolidPrecipSR.computeValues: RAIN * SR, halved if np.max(SR) > 1
SolidPrecipSR_computeValues(self, checked, indata, delta, const) ==
  LET chk == DerivedVariable_computeValues(self, checked, const)
      outdata == [t \in 1..Len(indata.RAIN) |-> [g \in Grid |->
                    Mul(indata.RAIN[t][g], indata.SR[t][g])]]
  IN IF chk.err # "none" THEN chk
     ELSE IF Greater(ArrayMax(indata.SR), R(1))
     THEN Return(Some([t \in 1..Len(outdata) |-> [g \in Grid |->
                    Divide(outdata[t][g], R(2))]]))
     ELSE Return(Some(outdata))

\* --------------------------------------------------------- calcTimeDelta ----
\* A timestamp 'YYYY-MM-DD_HH:MM:SS' is the record of its year, month and
\* day (the integers of timestamps[i][:10].split('-')) and of the seconds
\* its time of day makes.
Stamp(y, m, d, s) == [y |-> y, m |-> m, d |-> d, s |-> s]

\* calendar.isleap(year)
isleap(year) == year % 4 = 0 /\ (year % 100 # 0 \/ year % 400 = 0)

DaysInMonth(y, m) ==
  IF m = 2 THEN (IF isleap(y) THEN 29 ELSE 28)
  ELSE IF m \in {4, 6, 9, 11} THEN 30 ELSE 31

RECURSIVE DaysBeforeMonth(_, _)
DaysBeforeMonth(y, m) ==
  IF m = 1 THEN 0 ELSE DaysBeforeMonth(y, m - 1) + DaysInMonth(y, m - 1)

\* date.toordinal(): the days from 0001-01-01, which is day 1
Ordinal(ts) ==
  LET py == ts.y - 1
  IN py * 365 + py \div 4 - py \div 100 + py \div 400
       + DaysBeforeMonth(ts.y, ts.m) + ts.d

\* (dt2 - dt1).total_seconds()
TotalSeconds(dt1, dt2) == (Ordinal(dt2) - Ordinal(dt1)) * 86400 + (dt2.s - dt1.s)

\* dt1 < dt2
Before(dt1, dt2) == TotalSeconds(dt1, dt2) > 0

\* The loop "while lsubld and ild < n" from index ild (counted from 0) on,
\* after steps passes: how it ends, and the passes made.
RECURSIVE LeapDaySearch(_, _, _, _)
LeapDaySearch(timestamps, year, ild, steps) ==
  IF ild >= Len(timestamps) THEN [end |-> "subtract", steps |-> steps]
  ELSE LET ts == timestamps[ild + 1]
       IN IF ts.m = 3 THEN [end |-> "subtract", steps |-> steps + 1]
          ELSE IF ~(ts.y = year /\ ts.m = 2)
          THEN [end |-> "assert", steps |-> steps + 1]
          ELSE IF ts.d = 29 THEN [end |-> "keep", steps |-> steps + 1]
          ELSE LeapDaySearch(timestamps, year, ild + 1, steps + 1)

\* calcTimeDelta(timestamps, year=None, month=None); the result carries the
\* passes of the leap-day search
calcTimeDelta(timestamps, year, month) ==
  LET dt1 == timestamps[1]
      dt2 == timestamps[Len(timestamps)]
      yr == IF year = None THEN dt1.y ELSE year[1]
      mo == IF month = None THEN dt1.m ELSE month[1]
      delta == TotalSeconds(dt1, dt2)
      n == Len(timestamps)
      ld == Stamp(yr, 2, 29, 0)
      failed == Raise("AssertionError", "") @@ [steps |-> 0]
  IN IF yr # dt1.y THEN failed
     ELSE IF ~(yr = dt2.y \/ yr + 1 = dt2.y) THEN failed
     ELSE IF mo # dt1.m THEN failed
     ELSE IF ~(mo = dt2.m \/ (mo % 12) + 1 = dt2.m) THEN failed
     ELSE IF mo = 2 /\ isleap(yr)
     THEN IF dt1.d = 29 \/ dt2.d = 29
          THEN Return(Some(delta)) @@ [steps |-> 0]
          ELSE IF Before(dt1, ld) /\ Before(ld, dt2)
          THEN LET ild == ((n - 1) * TotalSeconds(dt1, ld)) \div delta
                   search == LeapDaySearch(timestamps, yr, ild, 0)
               IN IF search.end = "assert"
                  THEN Raise("AssertionError", "") @@ [steps |-> search.steps]
                  ELSE IF search.end = "subtract"
                  THEN Return(Some(delta - 86400)) @@ [steps |-> search.steps]
                  ELSE Return(Some(delta)) @@ [steps |-> search.steps]
          ELSE Return(Some(delta)) @@ [steps |-> 0]
     ELSE Return(Some(delta)) @@ [steps |-> 0]

\* ======================================================================
\* Vorticity: relative vorticity on pressure levels.
\* ======================================================================
\* Vorticity(): no constants are declared
Vorticity ==
  [DerivedVariable("Vorticity", <<"U_PL", "V_PL">>, None, TRUE, FALSE, TRUE)
     EXCEPT !.cls = "Vorticity"]

\* a - b of two arrays of one shape
ArrayDifference(a, b) ==
  [shape |-> a.shape,
   val |-> [ix \in Indices(a.shape) |-> Sub(a.val[ix], b.val[ix])]]

\* lines 1294-1295: ctrDiff(V_PL, axis=3, delta=const['DX'])
\* - ctrDiff(U_PL, axis=2, delta=const['DY']), the operands evaluated from
\* left to right; const is None or Some(dict)
VorticityDifference(indata, const) ==
  IF const = None
  THEN Raise("TypeError", "'NoneType' object is not subscriptable")
  ELSE IF "DX" \notin DOMAIN const[1] THEN Raise("KeyError", "DX")
  ELSE CHOOSE r \in
         {IF dvdx.err # "none" THEN Raise(dvdx.err, dvdx.msg)
          ELSE IF "DY" \notin DOMAIN const[1] THEN Raise("KeyError", "DY")
          ELSE CHOOSE q \in
                 {IF dudy.err # "none" THEN Raise(dudy.err, dudy.msg)
                  ELSE Return(Some(ArrayDifference(dvdx.out[1], dudy.out[1]))) :
                    dudy \in {ctrDiff(indata.U_PL, 2, const[1]["DY"])}} : TRUE :
            dvdx \in {ctrDiff(indata.V_PL, 3, const[1]["DX"])}} : TRUE

\* Vorticity.computeValues: U_PL and V_PL are (time, level, south_north,
\* west_east) arrays
Vorticity_computeValues(self, checked, indata, const) ==
  LET chk == DerivedVariable_computeValues(self, checked, const)
  IN IF chk.err # "none" THEN chk ELSE VorticityDifference(indata, const)

\* ============================================================== state ====
VARIABLES
  dv,       \* the descriptor instance under test (fixed after construction)
  checked,  \* self.checked
  period,   \* self.period of a ConsecutiveExtrema
  tmp,      \* the scratch dictionary handed to computeValues
  const,    \* the constants dictionary handed to computeValues
  aggdata,  \* the driver's running accumulator (None or a field)
  ret,      \* the last call: [op, err, out, arg]
  total,    \* history: sample-by-sample sum of the chunks aggregated
  nsamp,    \* history: per grid point, the number of samples in total
  ncalls,   \* number of calls made
  pending,  \* the result of computeValues the driver has not aggregated yet
            \* (for a linear variable or a column integral: the chunk of
            \* prerequisite fields at hand)
  seen,     \* history: the chunks given to computeValues so far (for an
            \* Extrema being aggregated: the fields folded into aggdata)
  other,    \* a second variable using the same scratch: [dv, period]
  alone     \* the run of dv's calls on a scratch of its own: [tmp, period]

vars == <<dv, checked, period, tmp, const, aggdata, ret, total, nsamp, ncalls,
          pending, seen, other, alone>>

EmptyDict == << >>
NoCall == [op |-> "none", err |-> "none", msg |-> "", out |-> None, arg |-> None]
\* the record of a call: what was called, with what, and how it ended
Call(op, r, arg) == [op |-> op, err |-> r.err, msg |-> r.msg, out |-> r.out, arg |-> arg]

\* ------------------------------------------------ aggregation (SpecAgg) ----
\* the fields the chunks are made of: constant grids of 2 and of 4, a grid
\* whose points differ, and one with a missing value
AggFields ==
  {[sw |-> R(2), ne |-> R(2)], [sw |-> R(4), ne |-> R(4)],
   [sw |-> R(2), ne |-> R(4)], [sw |-> NaN, ne |-> R(4)]}
\* what computeValues can hand over: nothing, an empty array, a chunk
AggChunks == {None} \cup {Some(c) : c \in SeqsUpTo(AggFields, MaxChunk)}
\* an Extrema's computeValues has already reduced the time axis
ExtremaResults == {None, Some(<< >>)} \cup {Some(f) : f \in AggFields}

AggDescriptors ==
  {DerivedVariable("VAR", <<"SRC">>, None, FALSE, ign, norm) :
     ign \in BOOLEAN, norm \in BOOLEAN}
  \cup {Extrema("T2", m, ign) : m \in {"max", "min"}, ign \in BOOLEAN}
  \* an Extrema whose normalize attribute was set after construction
  \cup {[Extrema("T2", "max", FALSE) EXCEPT !.normalize = TRUE]}

\* what the caller passed as comdata: "None", "empty" or "chunk"
Kind(comdata, size) ==
  IF comdata = None THEN "None" ELSE IF size = 0 THEN "empty" ELSE "chunk"

\* the reference count: the samples that enter the sum
CountSample(cnt, field, ignoreNaN) ==
  [g \in Grid |-> IF ignoreNaN /\ IsNaN(field[g]) THEN cnt[g] ELSE cnt[g] + 1]
RECURSIVE CountChunk(_, _, _)
CountChunk(cnt, chunk, ignoreNaN) ==
  IF chunk = << >> THEN cnt
  ELSE CountChunk(CountSample(cnt, chunk[1], ignoreNaN), Tail(chunk), ignoreNaN)

\* the reference sum: one sample at a time
AccumulateSample(tot, field, ignoreNaN) ==
  [g \in Grid |-> IF ignoreNaN /\ IsNaN(field[g]) THEN tot[g]
                  ELSE Add(tot[g], field[g])]
RECURSIVE AccumulateChunk(_, _, _)
AccumulateChunk(tot, chunk, ignoreNaN) ==
  IF chunk = << >> THEN tot
  ELSE AccumulateChunk(AccumulateSample(tot, chunk[1], ignoreNaN),
                       Tail(chunk), ignoreNaN)

AggInit ==
  /\ dv \in AggDescriptors
  /\ checked = TRUE
  /\ period = R(0)
  /\ tmp = EmptyDict
  /\ const = EmptyDict
  /\ aggdata \in {None, Some(Zeros)}
  /\ ret = NoCall
  /\ total = Zeros
  /\ nsamp = [g \in Grid |-> 0]
  /\ ncalls = 0
  /\ pending = None
  /\ seen = IF dv.cls = "Extrema" /\ aggdata # None THEN <<aggdata[1]>>
            ELSE << >>
  /\ other = None
  /\ alone = None

\* aggdata = var.aggregateValues(comdata, aggdata) for a sum-style variable
DefaultAggregate ==
  /\ dv.cls = "DerivedVariable"
  /\ ncalls < MaxCalls
  /\ \E comdata \in AggChunks :
     \E r \in {DerivedVariable_aggregateValues(dv, comdata, aggdata)} :
       LET fed == r.err = "none" /\ comdata # None /\ Len(comdata[1]) > 0
       IN /\ aggdata' = IF r.err = "none" THEN r.out ELSE aggdata
          /\ ret' = Call("aggregateValues", r,
                          [comdata |-> Kind(comdata, IF comdata = None THEN 0
                                                     ELSE Size(comdata[1])),
                           aggdata |-> aggdata])
          /\ total' = IF fed THEN AccumulateChunk(total, comdata[1], dv.ignoreNaN)
                      ELSE total
          /\ nsamp' = IF fed THEN CountChunk(nsamp, comdata[1], dv.ignoreNaN)
                      ELSE nsamp
  /\ ncalls' = ncalls + 1
  /\ UNCHANGED <<dv, checked, period, tmp, const, pending, seen, other, alone>>

\* aggdata = var.aggregateValues(comdata, aggdata) for an Extrema
ExtremaAggregate ==
  /\ dv.cls = "Extrema"
  /\ ncalls < MaxCalls
  /\ \E comdata \in ExtremaResults :
     \E r \in {Extrema_aggregateValues(dv, comdata, aggdata)} :
          /\ aggdata' = IF r.err = "none" THEN r.out ELSE aggdata
          /\ ret' = Call("aggregateValues", r,
                          [comdata |-> Kind(comdata, IF comdata = None THEN 0
                                                     ELSE FieldSize(comdata[1])),
                           aggdata |-> aggdata])
          /\ seen' = IF r.err = "none" /\ comdata # None
                         /\ FieldSize(comdata[1]) > 0
                      THEN Append(seen, comdata[1]) ELSE seen
  /\ ncalls' = ncalls + 1
  /\ UNCHANGED <<dv, checked, period, tmp, const, total, nsamp, pending,
               other, alone>>

AggNext == DefaultAggregate \/ ExtremaAggregate
SpecAgg == AggInit /\ [][AggNext]_vars


\* ------------------------------------------------------ claims C7 - C10 ----
DefaultCall == ret.op = "aggregateValues" /\ dv.cls = "DerivedVariable"

\* C7 (as stated): an empty or absent chunk result handed to aggregateValues
\* never raises and leaves the running accumulator as it was, for the
\* default aggregation and for Extrema.aggregateValues alike.
C7_EmptyChunkIsNoOp ==
  (ret.op = "aggregateValues" /\ ret.arg.comdata \in {"None", "empty"})
    => (ret.err = "none" /\ aggdata = ret.arg.aggdata)

\* C8: with normalize set and an explicit zero accumulator to start from,
\* the accumulator is the element-wise sum over time of every sample of
\* every non-empty chunk aggregated so far (NaN samples skipped under
\* ignoreNaN).
C8_AccumulatorIsSumOfSamples ==
  (dv.cls = "DerivedVariable" /\ dv.normalize /\ aggdata # None)
    => aggdata = Some(total)

\* chunks of value 2 and 4 over a constant grid sum to 6, which divided by
\* the count 2 is 3
C8_Witness ==
  /\ dv.cls = "DerivedVariable" /\ dv.normalize /\ ncalls = 2
  /\ aggdata = Some([g \in Grid |-> R(6)])
  /\ nsamp = [g \in Grid |-> 2]
  /\ \A g \in Grid : DivInt(aggdata[1][g], nsamp[g]) = R(3)

\* C9: the default aggregateValues, called on a non-empty chunk without an
\* accumulator while normalize is set, raises DerivedVariableError and
\* returns no accumulator.
C9_NoAccumulatorRaises ==
  (DefaultCall /\ ret.arg.comdata = "chunk" /\ ret.arg.aggdata = None
     /\ dv.normalize)
    => (ret.err = "DerivedVariableError" /\ ret.out = None /\ aggdata = None)

C9_Witness ==
  /\ DefaultCall /\ ret.arg.comdata = "chunk" /\ ret.arg.aggdata = None
  /\ dv.normalize /\ ret.err = "DerivedVariableError"

\* the mean of the samples fed so far, from the reference sum and count
ReferenceMean == [g \in Grid |-> IF nsamp[g] = 0 THEN NaN
                                 ELSE DivInt(total[g], nsamp[g])]

\* C10 (as stated): aggregateValues with normalize=true and no accumulator
\* succeeds on a non-empty chunk and returns the chunk's own mean.
C10_OnePassMeanWithNormalize ==
  (DefaultCall /\ ret.arg.comdata = "chunk" /\ ret.arg.aggdata = None
     /\ dv.normalize)
    => (ret.err = "none" /\ ret.out = Some(ReferenceMean))

\* C10 (amended): aggregateValues with normalize=false and no accumulator
\* succeeds on a non-empty chunk and returns the chunk's own mean over the
\* time axis (the mean of the non-NaN samples under ignoreNaN).
C10_OnePassMeanWithoutNormalize ==
  (DefaultCall /\ ret.arg.comdata = "chunk" /\ ret.arg.aggdata = None
     /\ ~dv.normalize)
    => (ret.err = "none" /\ ret.out = Some(ReferenceMean)
        /\ aggdata = ret.out)

\* two samples 2 and 4 at a grid point average to 3
C10_Witness ==
  /\ DefaultCall /\ ret.arg.comdata = "chunk" /\ ret.arg.aggdata = None
  /\ ~dv.normalize /\ ret.err = "none"
  /\ \E g \in Grid : nsamp[g] = 2 /\ total[g] = R(6) /\ ret.out[1][g] = R(3)

\* ---------------------------------------------------- claims C11 - C13 ----
\* C11 (as stated): whatever the normalize flag and whether or not there is
\* an accumulator, a default aggregateValues call that does not raise
\* returns the running sum of the samples, never a value divided by the
\* sample count.
C11_NeverDivides ==
  (DefaultCall /\ ret.err = "none" /\ ret.arg.comdata = "chunk")
    => ret.out = Some(total)

\* C11 (amended): an aggregateValues call that does not raise divides by
\* the sample count only when it is given no accumulator (which requires
\* normalize to be false); given an accumulator, the default aggregation
\* returns the undivided running sum, and an Extrema returns at each grid
\* point one of the chunk values folded so far.
C11_DividesOnlyWithoutAccumulator ==
  (ret.op = "aggregateValues" /\ ret.err = "none" /\ ret.arg.comdata = "chunk")
    => IF dv.cls = "DerivedVariable"
       THEN IF ret.arg.aggdata = None
            THEN ~dv.normalize /\ ret.out = Some(ReferenceMean)
            ELSE dv.normalize /\ ret.out = Some(total)
       ELSE \A g \in Grid : \E i \in DOMAIN seen : ret.out[1][g] = seen[i][g]

\* a sum of two or more samples added to an accumulator, unequal to their mean
C11_Witness ==
  /\ DefaultCall /\ ret.err = "none" /\ ret.arg.comdata = "chunk"
  /\ ret.arg.aggdata # None
  /\ \E g \in Grid : nsamp[g] >= 2 /\ ret.out[1][g] = total[g]
                       /\ ret.out[1][g] # ReferenceMean[g]

\* the extremum of a series of results at one grid point, told from the
\* values themselves: NaN if a NaN is among them (unless NaN is ignored) or
\* if nothing else is, otherwise the value no other value exceeds
ExtremumOf(col, mode, ignoreNaN) ==
  LET vals == {col[i] : i \in DOMAIN col} \ {NaN}
  IN IF ~ignoreNaN /\ (\E i \in DOMAIN col : IsNaN(col[i])) THEN NaN
     ELSE IF vals = {} THEN NaN
     ELSE IF mode = 1 THEN CHOOSE m \in vals : \A x \in vals : ~Less(m, x)
     ELSE CHOOSE m \in vals : \A x \in vals : ~Less(x, m)
ReferenceExtremum(results) ==
  [g \in Grid |-> ExtremumOf(Column(results, g), dv.mode, dv.ignoreNaN)]

\* C12: after every Extrema.aggregateValues call the accumulator is the
\* element-wise maximum (mode max) or minimum (mode min) of the non-empty
\* chunk results folded so far, the first one taken as it is; the call
\* never lowers (max) or raises (min) the accumulator, and folding the same
\* chunk result once more changes nothing.
C12_AccumulatorIsExtremum ==
  [][ (ret'.op = "aggregateValues" /\ dv.cls = "Extrema" /\ ~dv.normalize)
        => /\ seen' = << >> => aggdata' = None
           /\ seen' # << >> => aggdata' = Some(ReferenceExtremum(seen'))
           /\ (seen = << >> /\ seen' # << >>) => aggdata' = Some(seen'[1])
           /\ (aggdata # None /\ aggdata' # None)
                => \A g \in Grid :
                     IF dv.mode = 1 THEN ~Less(aggdata'[1][g], aggdata[1][g])
                     ELSE ~Less(aggdata[1][g], aggdata'[1][g])
           /\ seen' # seen
                => Extrema_aggregateValues(dv, Some(seen'[Len(seen')]),
                                           aggdata').out = aggdata' ]_vars

\* two chunk results folded into an accumulator that equals neither: each
\* grid point has its own extremum
C12_Witness ==
  /\ dv.cls = "Extrema" /\ ret.op = "aggregateValues" /\ ret.err = "none"
  /\ Len(seen) = 2
  /\ aggdata \notin {Some(seen[1]), Some(seen[2])}

\* C13: Extrema.aggregateValues raises DerivedVariableError whenever the
\* normalize flag is set, even for an absent or empty chunk result, and the
\* default aggregateValues raises it when given an accumulator and a
\* non-empty chunk while normalize is not set; the accumulator stays as it
\* was.
C13_NormalizeMismatchRaises ==
  /\ (ret.op = "aggregateValues" /\ dv.cls = "Extrema" /\ dv.normalize)
       => (ret.err = "DerivedVariableError" /\ aggdata = ret.arg.aggdata)
  /\ (DefaultCall /\ ret.arg.comdata = "chunk" /\ ret.arg.aggdata # None
        /\ ~dv.normalize)
       => (ret.err = "DerivedVariableError" /\ aggdata = ret.arg.aggdata)

\* an Extrema with normalize set, called without a chunk result
C13_Witness ==
  /\ ret.op = "aggregateValues" /\ dv.cls = "Extrema" /\ dv.normalize
  /\ ret.arg.comdata \in {"None", "empty"}
  /\ ret.err = "DerivedVariableError"


\* ------------------------------------------- descriptor life cycle (Spec) ----
\* Base-class instances declared like the classes that need constants
\* (OrographicIndex: HGT, DY, DX; TimeOfConvection: XLONG), one with an empty
\* constants list, and Rain, which declares none.
LifecycleDescriptors ==
  {Rain,
   DerivedVariable("OrographicIndex", <<"U10", "V10">>,
                   Some(<<"HGT", "DY", "DX">>), FALSE, FALSE, TRUE),
   DerivedVariable("TimeOfConvection", <<"TRAINCVMAX", "Times">>,
                   Some(<<"XLONG">>), FALSE, TRUE, TRUE),
   DerivedVariable("Plain", <<"U10">>, Some(<< >>), FALSE, FALSE, TRUE)}

\* the variables a source dataset may hold: the prerequisites and the name
\* one of them has in another file type
Alias(var) == IF var = "RAINNC" THEN "RAINNCV"
              ELSE IF var = "U10" THEN "U" ELSE var \o "_2"
SourceNames(self) ==
  {self.prerequisites[i] : i \in DOMAIN self.prerequisites}
    \cup {Alias(self.prerequisites[1])}
\* the variables a constants dataset may hold (None: no such dataset)
ConstDatasets ==
  {None, Some({}), Some({"HGT"}), Some({"HGT", "DY", "DX"}), Some({"XLONG"})}
Varmaps(self) ==
  {None, Some(EmptyDict),
   Some(self.prerequisites[1] :> Alias(self.prerequisites[1]))}

\* the constants dictionary of a run: empty, or the loaded constant fields
ConstDicts ==
  {EmptyDict,
   [k \in {"HGT", "DY", "DX", "XLONG"} |-> Zeros]}

RainFields == {[sw |-> R(2), ne |-> R(4)], [sw |-> NaN, ne |-> R(1)]}
\* indata of Rain: RAINNC and RAINC with the same time axis
RainInputs ==
  UNION {[RAINNC : [1..k -> RainFields], RAINC : [1..k -> RainFields]] :
           k \in 1..MaxLen}
\* delta: None, a single time step (0), one day
Deltas == {None, Some(0), Some(lengthofday)}

DictKind(arg) == IF arg = None THEN "None"
                 ELSE IF DOMAIN arg[1] = {} THEN "empty" ELSE "dict"

Init ==
  /\ dv \in LifecycleDescriptors
  /\ checked = FALSE
  /\ period = R(0)
  /\ tmp = EmptyDict
  /\ const \in ConstDicts
  /\ aggdata = None
  /\ ret = NoCall
  /\ total = Zeros
  /\ nsamp = [g \in Grid |-> 0]
  /\ ncalls = 0
  /\ pending = None
  /\ seen = << >>
  /\ other = None
  /\ alone = None

\* var.checkPrerequisites(target, const=..., varmap=...)
CheckPrerequisites ==
  /\ \E target \in SUBSET SourceNames(dv), cds \in ConstDatasets,
        varmap \in Varmaps(dv) :
       \E r \in {checkPrerequisites(dv, target, cds, varmap)} :
         /\ checked' = IF r.err = "none" THEN r.out ELSE checked
         /\ ret' = Call("checkPrerequisites", r,
                        [target |-> target, const |-> cds, varmap |-> varmap,
                         checked |-> checked])
  /\ UNCHANGED <<dv, period, tmp, const, aggdata, total, nsamp, ncalls,
               pending, seen, other, alone>>

\* var.createVariable(target)
CreateVariable ==
  /\ ret' = Call("createVariable", createVariable(dv, checked),
                 [checked |-> checked])
  /\ UNCHANGED <<dv, checked, period, tmp, const, aggdata, total, nsamp,
               ncalls, pending, seen, other, alone>>

\* var.computeValues(indata, delta=..., const=..., tmp=...) of a base-class
\* instance
BaseComputeValues ==
  /\ dv.cls = "DerivedVariable"
  /\ \E carg \in {None, Some(const)} :
       ret' = Call("computeValues",
                   DerivedVariable_computeValues(dv, checked, carg),
                   [const |-> DictKind(carg), checked |-> checked])
  /\ UNCHANGED <<dv, checked, period, tmp, const, aggdata, total, nsamp,
               ncalls, pending, seen, other, alone>>

\* Rain.computeValues(indata, delta=..., const=..., tmp=...)
RainComputeValues ==
  /\ dv.cls = "Rain"
  /\ \E indata \in RainInputs, delta \in Deltas, carg \in {None, Some(const)} :
       ret' = Call("computeValues",
                   Rain_computeValues(dv, checked, indata, delta, carg),
                   [const |-> DictKind(carg), checked |-> checked])
  /\ UNCHANGED <<dv, checked, period, tmp, const, aggdata, total, nsamp,
               ncalls, pending, seen, other, alone>>

Next ==
  \/ CheckPrerequisites
  \/ CreateVariable
  \/ BaseComputeValues
  \/ RainComputeValues

Spec == Init /\ [][Next]_vars

\* ------------------------------------------------------- claims C2, C3 ----
\* the names the dataset given as const makes available (none without one)
Available(cds) == IF cds = None THEN {} ELSE cds[1]
DeclaredConstants(self) ==
  IF self.constants = None THEN {}
  ELSE {self.constants[1][i] : i \in DOMAIN self.constants[1]}
Renamed(varmap, var) ==
  IF varmap # None /\ var \in DOMAIN varmap[1] THEN varmap[1][var] ELSE var

\* C2 (as stated): checkPrerequisites returns true exactly when every
\* prerequisite (renamed by the mapping, if any) is among the source fields
\* and every declared constant is among the available constants, and checked
\* is set to the value returned.
C2_CheckedIffAllAvailable ==
  ret.op = "checkPrerequisites"
    => /\ ret.err = "none"
       /\ ret.out = ( /\ \A i \in DOMAIN dv.prerequisites :
                           Renamed(ret.arg.varmap, dv.prerequisites[i])
                             \in ret.arg.target
                      /\ DeclaredConstants(dv) \subseteq Available(ret.arg.const) )
       /\ checked = ret.out

DeclaresConstants(self) == self.constants # None /\ Len(self.constants[1]) > 0

\* C3: on a checked descriptor that declares constants, computeValues called
\* with no or an empty constants dictionary raises the missing-constants
\* ValueError and computes nothing; on a checked descriptor that declares
\* none, a call without constants is not refused for missing constants.
C3_ConstantsRequired ==
  (ret.op = "computeValues" /\ checked /\ ret.arg.const \in {"None", "empty"})
    => /\ DeclaresConstants(dv)
            => (ret.err = "ValueError"
                /\ ret.msg = "requires a constants dictionary"
                /\ ret.out = None)
       /\ ~DeclaresConstants(dv)
            => ret.msg # "requires a constants dictionary"

\* both halves happen: a refusal for an empty dictionary, and Rain computing
\* its sum without any constants
C3_Witness ==
  /\ ret.op = "computeValues" /\ checked
  /\ \/ DeclaresConstants(dv) /\ ret.arg.const = "empty" /\ ret.err = "ValueError"
     \/ dv.cls = "Rain" /\ ret.arg.const = "None" /\ ret.err = "none"
          /\ ret.out # None


\* ---------------------------------- interval-averaged extrema (SpecMex) ----
\* MeanExtrema(var, mode) with the default interval of 5 days
DefaultInterval == 5
MexDescriptors ==
  {MeanExtrema("T2", m, DefaultInterval, ign) :
     m \in {"max", "min"}, ign \in BOOLEAN}
MexFields == {[sw |-> R(1), ne |-> R(4)], [sw |-> R(2), ne |-> R(0)]}
\* delta: 0, daily samples (5 per block), 2.5-day samples (2 per block) and
\* 6-day samples (longer than the interval)
MexDeltas == {0, lengthofday, 216000, 518400}

MexInit ==
  /\ dv \in MexDescriptors
  /\ checked = FALSE
  /\ period = R(0)
  /\ tmp = EmptyDict
  /\ const = EmptyDict
  /\ aggdata = None
  /\ ret = NoCall
  /\ total = Zeros
  /\ nsamp = [g \in Grid |-> 0]
  /\ ncalls = 0
  /\ pending = None
  /\ seen = << >>
  /\ other = None
  /\ alone = None

\* var.computeValues(indata, aggax=0, delta=delta, const=None, tmp=tmp)
MeanExtremaComputeValues ==
  /\ \E chunk \in SeqsUpTo(MexFields, MaxLen), delta \in MexDeltas :
       \E r \in {MeanExtrema_computeValues(dv, checked, chunk, delta, None, tmp)} :
         /\ tmp' = r.tmp
         /\ ret' = Call("computeValues", r,
                        [chunk |-> chunk, delta |-> delta, checked |-> checked])
  /\ UNCHANGED <<dv, checked, period, const, aggdata, total, nsamp, ncalls,
               pending, seen, other, alone>>

\* var.checkPrerequisites(target) without constants dataset and varmap,
\* called before the first chunk is handed to the variable
CheckSourcePrerequisites ==
  /\ seen = << >>
  /\ \E target \in SUBSET SourceNames(dv) :
       \E r \in {checkPrerequisites(dv, target, None, None)} :
         /\ checked' = IF r.err = "none" THEN r.out ELSE checked
         /\ ret' = Call("checkPrerequisites", r,
                        [target |-> target, const |-> None, varmap |-> None,
                         checked |-> checked])
  /\ UNCHANGED <<dv, period, tmp, const, aggdata, total, nsamp, ncalls,
               pending, seen, other, alone>>

MexNext ==
  \/ CheckSourcePrerequisites
  \/ CreateVariable
  \/ MeanExtremaComputeValues

SpecMex == MexInit /\ [][MexNext]_vars

\* ------------------------------------------------- claims C1, C5, C6 ----
\* the samples the variable holds in scratch
Buffered(scratch) ==
  IF dv.tmpdata[1] \in DOMAIN scratch THEN scratch[dv.tmpdata[1]] ELSE << >>

\* C1 (as stated): computeValues on a descriptor whose checked flag is false
\* raises the prerequisite error, returns nothing and leaves scratch and
\* constants untouched, whatever the chunk; createVariable on it raises the
\* prerequisite error too.
C1_UncheckedIsRefused ==
  [][ /\ (ret'.op = "computeValues" /\ ~checked)
           => (ret'.err = "DerivedVariableError" /\ ret'.out = None
               /\ tmp' = tmp /\ const' = const)
      /\ (ret'.op = "createVariable" /\ ~checked)
           => ret'.err = "DerivedVariableError" ]_vars

\* C5 (as stated): after a call that returns, scratch holds exactly the
\* samples beyond the last complete block of the buffered samples followed
\* by the new chunk, so that no sample is dropped.
C5_LeftoverIsCarriedOver ==
  [][ (ret'.op = "computeValues" /\ ret'.err = "none")
        => LET all == Buffered(tmp) \o ret'.arg.chunk
               ilen == dv.interval \div ret'.arg.delta
           IN Buffered(tmp') = Drop(all, ilen * (Len(all) \div ilen)) ]_vars

\* C6: when the buffered samples and the new chunk together hold less than
\* one full block, computeValues returns None and scratch holds the buffered
\* samples followed by the new ones; a value is returned only by a call that
\* has at least one full block.
C6_ShortChunkIsBuffered ==
  [][ ret'.op = "computeValues" /\ ret'.arg.delta # 0
        => LET all == Buffered(tmp) \o ret'.arg.chunk
               ilen == dv.interval \div ret'.arg.delta
           IN /\ (ilen > 0 /\ Len(all) < ilen)
                   => (ret'.err = "none" /\ ret'.out = None
                       /\ Buffered(tmp') = all)
              /\ ret'.out # None => (ilen > 0 /\ Len(all) >= ilen) ]_vars

\* a short chunk appended to samples buffered by an earlier call
C6_Witness ==
  /\ ret.op = "computeValues" /\ ret.err = "none" /\ ret.out = None
  /\ Len(ret.arg.chunk) >= 1
  /\ Len(Buffered(tmp)) > Len(ret.arg.chunk)


\* ------------------------------------ consecutive exceedances (SpecCox) ----
\* longest series (time steps) given to one variable
MaxSeen == 5
\* ConsecutiveExtrema(var, mode, threshold=2)
CoxThreshold == R(2)
CoxDescriptors ==
  {ConsecutiveExtrema("T2", m, CoxThreshold, ign) :
     m \in {"above", "below"}, ign \in BOOLEAN}
\* a step above the threshold in the south-west and below it in the
\* north-east, and a step below it in the south-west and missing in the
\* north-east
CoxFields == {[sw |-> R(3), ne |-> R(1)], [sw |-> R(1), ne |-> NaN]}
\* daily and half-daily output
CoxDeltas == {lengthofday, 43200}

CoxInit ==
  /\ dv \in CoxDescriptors
  /\ checked = FALSE
  /\ period = R(0)
  /\ tmp = EmptyDict
  /\ const = EmptyDict
  /\ aggdata = None
  /\ ret = NoCall
  /\ total = Zeros
  /\ nsamp = [g \in Grid |-> 0]
  /\ ncalls = 0
  /\ pending = None
  /\ seen = << >>
  /\ other = None
  /\ alone = None

\* the series the chunks make up
RECURSIVE Series(_)
Series(chunks) == IF chunks = << >> THEN << >>
                  ELSE Head(chunks) \o Series(Tail(chunks))

\* comdata = var.computeValues(indata, aggax=0, delta=delta, const=None,
\* tmp=tmp) on the next chunk of the series
ConsecutiveComputeValues ==
  /\ pending = None
  /\ \E chunk \in SeqsUpTo(CoxFields, MaxLen) \ {<< >>}, delta \in CoxDeltas :
       /\ Len(Series(seen)) + Len(chunk) <= MaxSeen
       /\ \E r \in {ConsecutiveExtrema_computeValues(dv, checked, period, chunk,
                                                     delta, None, tmp)} :
            /\ tmp' = r.tmp
            /\ period' = r.period
            /\ pending' = r.out
            /\ seen' = IF r.err = "none" THEN Append(seen, chunk) ELSE seen
            /\ ret' = Call("computeValues", r,
                           [delta |-> delta, checked |-> checked])
  /\ UNCHANGED <<dv, checked, const, aggdata, total, nsamp, ncalls, other,
               alone>>

\* aggdata = var.aggregateValues(comdata, aggdata) on the result of the chunk
ConsecutiveAggregate ==
  /\ pending # None
  /\ \E r \in {Extrema_aggregateValues(dv, pending, aggdata)} :
       /\ aggdata' = IF r.err = "none" THEN r.out ELSE aggdata
       /\ ret' = Call("aggregateValues", r, [aggdata |-> aggdata])
  /\ pending' = None
  /\ UNCHANGED <<dv, checked, period, tmp, const, total, nsamp, ncalls,
               seen, other, alone>>

CoxNext ==
  \/ CheckSourcePrerequisites
  \/ ConsecutiveComputeValues
  \/ ConsecutiveAggregate

SpecCox == CoxInit /\ [][CoxNext]_vars

\* ------------------------------------------------------------ claim C4 ----
\* the length of the longest run of exceeding steps in a series
RECURSIVE LongestStreak(_, _, _)
LongestStreak(series, current, longest) ==
  IF series = << >> THEN longest
  ELSE LET now == IF Exceeds(dv, Head(series)) THEN current + 1 ELSE 0
       IN LongestStreak(Tail(series), now,
                        IF now > longest THEN now ELSE longest)

\* at grid point g the last step of chunk 1 and the first step of chunk 2
\* both exceed the threshold
SpansBoundary(g) ==
  /\ Exceeds(dv, seen[1][Len(seen[1])][g])
  /\ Exceeds(dv, seen[2][1][g])

\* C4 (as stated): with daily steps and a streak of exceeding steps running
\* from chunk 1 into chunk 2, the maximum folded from the two chunk results
\* with aggregateValues is the length in days of the longest streak of the
\* series, the one across the boundary included (3 + 2 steps report 5 days).
C4_StreakAcrossChunksIsReported ==
  (/\ ret.op = "aggregateValues" /\ ret.err = "none"
   /\ Len(seen) = 2 /\ pending = None
   /\ tmp["COX_DELTA"] = lengthofday /\ ~dv.ignoreNaN)
    => \A g \in Grid :
         SpansBoundary(g)
           => aggdata[1][g] = R(LongestStreak(Column(Series(seen), g), 0, 0))


\* --------------------------------------------------- claims C14, C15 ----
\* the number of exceeding steps a series ends with, told from its end
TrailingStreak(col) ==
  CHOOSE k \in 0..Len(col) :
    /\ \A i \in (Len(col) - k + 1)..Len(col) : Exceeds(dv, col[i])
    /\ k < Len(col) => ~Exceeds(dv, col[Len(col) - k])

\* C14: once the variable has processed a chunk, the counter kept in
\* scratch under the variable's own key holds, for each grid point, the
\* number of consecutive exceeding steps ending at the last step processed
\* (0 if that step did not exceed), chunk boundaries notwithstanding.
C14_CounterIsTrailingStreak ==
  /\ seen # << >> <=> dv.tmpdata[1] \in DOMAIN tmp
  /\ seen # << >>
       => \A g \in Grid :
            tmp[dv.tmpdata[1]][g] = TrailingStreak(Column(Series(seen), g))

\* after the second chunk a counter that is larger than that chunk is long,
\* at another grid point a counter reset within the chunks
C14_Witness ==
  /\ Len(seen) = 2
  /\ \E g \in Grid : tmp[dv.tmpdata[1]][g] > Len(seen[2])
  /\ \E g \in Grid : \E t \in 1..Len(seen[2]) : ~Exceeds(dv, seen[2][t][g])

\* C15: once an interval is recorded in scratch, a call on the checked
\* variable with another delta raises NotImplementedError and leaves
\* scratch, recorded delta and counter included, as it was.
C15_OtherDeltaIsRefused ==
  [][ (/\ ret'.op = "computeValues" /\ checked
       /\ "COX_DELTA" \in DOMAIN tmp
       /\ ret'.arg.delta # tmp["COX_DELTA"])
        => (ret'.err = "NotImplementedError" /\ ret'.out = None
            /\ tmp' = tmp) ]_vars

\* a call refused for its delta after chunks have been counted
C15_Witness ==
  /\ ret.op = "computeValues" /\ ret.err = "NotImplementedError"
  /\ "COX_DELTA" \in DOMAIN tmp /\ ret.arg.delta # tmp["COX_DELTA"]
  /\ \E g \in Grid : tmp[dv.tmpdata[1]][g] > 0


\* -------------------------- two variables on one scratch (SpecShare) ----
\* two ConsecutiveExtrema of one field with thresholds 2 and 3, two WetDays
\* with thresholds of 1 and 2 mm/day
SharePairs ==
  {<<ConsecutiveExtrema("T2", "above", R(2), FALSE),
     ConsecutiveExtrema("T2", "above", R(3), FALSE)>>,
   <<ConsecutiveExtrema("T2", "below", R(3), TRUE),
     ConsecutiveExtrema("T2", "above", R(2), FALSE)>>,
   <<WetDays(R(1), "RAIN", FALSE), WetDays(R(2), "RAIN", FALSE)>>,
   <<WetDays(R(2), "RAIN", TRUE), WetDays(R(1), "RAIN", FALSE)>>}
\* precipitation rates of 3 and 0 mm/day, and a missing value
WetFields == {[sw |-> Q(3, 86400), ne |-> R(0)], [sw |-> R(0), ne |-> NaN]}
ShareFields(self) == IF self.cls = "WetDays" THEN WetFields ELSE CoxFields

\* self.computeValues(indata, aggax=0, delta=delta, const=None, tmp=scratch)
\* by the class of self, with self.period = per
computeValues(self, per, indata, delta, scratch) ==
  IF self.cls = "WetDays"
  THEN LET r == WetDays_computeValues(self, TRUE, indata, delta, None,
                                      Some(scratch))
       IN [err |-> r.err, msg |-> r.msg, out |-> r.out, tmp |-> r.tmp[1],
           period |-> per]
  ELSE ConsecutiveExtrema_computeValues(self, TRUE, per, indata, delta, None,
                                        scratch)

\* both variables constructed and their prerequisites found
ShareInit ==
  /\ \E pair \in SharePairs :
       /\ dv = pair[1]
       /\ other = [dv |-> pair[2], period |-> R(0)]
  /\ checked = TRUE
  /\ period = R(0)
  /\ tmp = EmptyDict
  /\ alone = [tmp |-> EmptyDict, period |-> R(0)]
  /\ const = EmptyDict
  /\ aggdata = None
  /\ ret = NoCall
  /\ total = Zeros
  /\ nsamp = [g \in Grid |-> 0]
  /\ ncalls = 0
  /\ pending = None
  /\ seen = << >>

\* dv.computeValues on the shared scratch; the same call is made on dv's
\* own scratch, where no other variable is ever computed
SharedComputeValues ==
  /\ ncalls < MaxCalls
  /\ \E chunk \in SeqsUpTo(ShareFields(dv), MaxLen) \ {<< >>},
        delta \in CoxDeltas :
       \E r \in {computeValues(dv, period, chunk, delta, tmp)},
          a \in {computeValues(dv, alone.period, chunk, delta, alone.tmp)} :
         /\ tmp' = r.tmp
         /\ period' = r.period
         /\ alone' = [tmp |-> a.tmp, period |-> a.period]
         /\ ret' = Call("computeValues", r,
                        [who |-> "dv", delta |-> delta,
                         alone |-> [err |-> a.err, out |-> a.out]])
  /\ ncalls' = ncalls + 1
  /\ UNCHANGED <<dv, checked, const, aggdata, total, nsamp, pending, seen,
                 other>>

\* other.computeValues on the shared scratch
OtherComputeValues ==
  /\ ncalls < MaxCalls
  /\ \E chunk \in SeqsUpTo(ShareFields(other.dv), MaxLen) \ {<< >>},
        delta \in CoxDeltas :
       \E r \in {computeValues(other.dv, other.period, chunk, delta, tmp)} :
         /\ tmp' = r.tmp
         /\ other' = [other EXCEPT !.period = r.period]
         /\ ret' = Call("computeValues", r, [who |-> "other", delta |-> delta])
  /\ ncalls' = ncalls + 1
  /\ UNCHANGED <<dv, checked, period, const, aggdata, total, nsamp, pending,
                 seen, alone>>

ShareNext == SharedComputeValues \/ OtherComputeValues
SpecShare == ShareInit /\ [][ShareNext]_vars

\* --------------------------------------------------- claims C16, C17 ----
\* C16 (as stated): every key in a scratch store that two variables share
\* is the handle derived from the name of exactly one of them, so that no
\* key is read or written by both.
C16_KeysAreOwned ==
  \A k \in DOMAIN tmp :
    \/ (dv.tmpdata = Some(k) /\ other.dv.tmpdata # Some(k))
    \/ (dv.tmpdata # Some(k) /\ other.dv.tmpdata = Some(k))

\* C17 (as stated): every call of dv has the outcome (value or error) it
\* has when no call of another variable is made on the same scratch.
C17_OthersDoNotInterfere ==
  (ret.op = "computeValues" /\ ret.arg.who = "dv")
    => (ret.err = ret.arg.alone.err /\ ret.out = ret.arg.alone.out)


\* ------------------------------------- time of convection (SpecToc) ----
\* time stamps: midnight of day 0 and of day 1, noon of day 3
TocTimes == {[day |-> 0, min |-> 0], [day |-> 1, min |-> 0],
             [day |-> 3, min |-> 720]}
\* TRAINCVMAX: the minute (since simulation start) of strongest convection
TocFields == {[sw |-> R(600), ne |-> R(0)], [sw |-> R(2000), ne |-> R(4500)]}
\* the chunks: time stamps, and one TRAINCVMAX field for every stamp
TocInputs ==
  {[Times |-> ts, TRAINCVMAX |-> [t \in 1..Len(ts) |-> f]] :
     ts \in SeqsUpTo(TocTimes, MaxLen) \ {<< >>}, f \in TocFields}
\* XLONG: longitudes west and east of Greenwich
TocConst == [k \in {"XLONG"} |-> [sw |-> R(-90), ne |-> R(45)]]

TocInit ==
  /\ dv = TimeOfConvection
  /\ checked = FALSE
  /\ period = R(0)
  /\ tmp = EmptyDict
  /\ const = TocConst
  /\ aggdata = None
  /\ ret = NoCall
  /\ total = Zeros
  /\ nsamp = [g \in Grid |-> 0]
  /\ ncalls = 0
  /\ pending = None
  /\ seen = << >>
  /\ other = None
  /\ alone = None

\* var.computeValues(indata, aggax=0, delta=delta, const=const, tmp=tmp)
TimeOfConvectionComputeValues ==
  /\ \E indata \in TocInputs, carg \in {None, Some(const)} :
       \E r \in {TimeOfConvection_computeValues(dv, checked, indata, carg)} :
         /\ const' = IF r.const = None THEN const ELSE r.const[1]
         /\ ret' = Call("computeValues", r,
                        [times |-> indata.Times, const |-> DictKind(carg),
                         checked |-> checked])
  /\ UNCHANGED <<dv, checked, period, tmp, aggdata, total, nsamp, ncalls,
                 pending, seen, other, alone>>

TocNext ==
  \/ TimeOfConvectionComputeValues
  \/ CheckSourcePrerequisites

SpecToc == TocInit /\ [][TocNext]_vars

\* ------------------------------------------------------------ claim C18 ----
\* every two consecutive time stamps are exactly 1440 minutes apart
Daily(times) ==
  \A t \in 1..(Len(times) - 1) :
    MinutesBetween(times[t + 1], times[t]) = 1440

\* C18 (as stated): on a chunk with two consecutive time stamps that are
\* not exactly 1440 minutes apart, TimeOfConvection.computeValues (checked,
\* constants given) raises NotImplementedError; it returns a result only
\* when all consecutive stamps are 1440 minutes apart.
C18_DailyOrRefused ==
  (ret.op = "computeValues" /\ ret.arg.checked /\ ret.arg.const = "dict")
    => ((~Daily(ret.arg.times) => ret.err = "NotImplementedError")
        /\ (ret.out # None => Daily(ret.arg.times)))

\* ----------------------------------------------------------------------
\* State machine: one linear variable and one chunk of its prerequisite
\* fields; the variable is computed on the chunk step by step, and once on
\* the chunk's time average.
\* ----------------------------------------------------------------------
LinDescriptors == {Rain, RunOff, NetRadiation, WetDayPrecip(R(1), "RAIN", FALSE)}

\* short-wave down (any field at any step) and long-wave up (steady)
\* fluxes; the other two vary with time only
RadFields == {[sw |-> R(5), ne |-> R(7)], [sw |-> R(9), ne |-> R(3)]}
\* a day's wet-day rain and wet-day flag: dry, or wet with rain above the
\* threshold
WetSteps ==
  {[rain |-> [sw |-> R(0), ne |-> R(0)], wet |-> [sw |-> R(0), ne |-> R(0)]],
   [rain |-> [sw |-> R(2), ne |-> R(0)], wet |-> [sw |-> R(1), ne |-> R(0)]],
   [rain |-> [sw |-> R(4), ne |-> R(3)], wet |-> [sw |-> R(1), ne |-> R(1)]]}

\* the chunks of a variable: every prerequisite with the same time axis
LinInputs(self) ==
  CASE self.cls = "Rain" -> RainInputs
    [] self.cls = "RunOff" ->
         UNION {[SFROFF : [1..k -> RainFields], UDROFF : [1..k -> RainFields]] :
                  k \in 1..MaxLen}
    [] self.cls = "NetRadiation" ->
         UNION {{[ACSWDNB |-> a,
                  ACSWUPB |-> [t \in 1..k |-> [sw |-> R(t), ne |-> R(1)]],
                  ACLWDNB |-> [t \in 1..k |-> [sw |-> R(6), ne |-> R(2 * t)]],
                  ACLWUPB |-> [t \in 1..k |-> b]] :
                   a \in [1..k -> RadFields], b \in RadFields} :
                  k \in 1..MaxLen}
    [] self.cls = "WetDayPrecip" ->
         UNION {{(self.wetdayrain :> [t \in 1..k |-> c[t].rain])
                   @@ (self.wetdays :> [t \in 1..k |-> c[t].wet]) :
                   c \in [1..k -> WetSteps]} :
                  k \in 1..MaxLen}

\* the chunk averaged over time: one field for every prerequisite
TimeAverage(indata) == [n \in DOMAIN indata |-> <<NpMean(indata[n])>>]

LinInit ==
  /\ dv \in LinDescriptors
  /\ checked = FALSE
  /\ period = R(0)
  /\ tmp = EmptyDict
  /\ const = EmptyDict
  /\ aggdata = None
  /\ ret = NoCall
  /\ total = Zeros
  /\ nsamp = [g \in Grid |-> 0]
  /\ ncalls = 0
  /\ pending \in LinInputs(dv)
  /\ seen = << >>
  /\ other = NoCall
  /\ alone = None

\* var.computeValues(indata, aggax=0, delta=delta) on the chunk
ComputePerStep ==
  /\ \E delta \in Deltas :
       \E r \in {LinearComputeValues(dv, checked, pending, delta)} :
         /\ pending' = r.indata
         /\ ret' = Call("computeValues", r,
                        [indata |-> pending, delta |-> delta,
                         checked |-> checked])
  /\ seen' = <<pending>>
  /\ UNCHANGED <<dv, checked, period, tmp, const, aggdata, total, nsamp,
                 ncalls, other, alone>>

\* var.computeValues(indata, aggax=0, delta=delta) on the time-averaged
\* chunk
ComputeOnAverage ==
  /\ \E delta \in Deltas :
       \E r \in {LinearComputeValues(dv, checked, TimeAverage(pending), delta)} :
         other' = Call("computeValues", r,
                       [indata |-> pending, delta |-> delta,
                        checked |-> checked])
  /\ seen' = <<pending>>
  /\ UNCHANGED <<dv, checked, period, tmp, const, aggdata, total, nsamp,
                 ncalls, pending, ret, alone>>

LinNext ==
  \/ ComputePerStep
  \/ ComputeOnAverage
  \/ CheckSourcePrerequisites

SpecLin == LinInit /\ [][LinNext]_vars

\* ------------------------------------------------------------ claim C19 ----
\* C19 (as stated): for every variable declared linear=True and every chunk
\* of at least 3 time steps, computing the variable once on the
\* time-averaged prerequisite fields gives the same values as computing it
\* per time step and averaging the results.
C19_LinearCommutesWithAveraging ==
  (/\ dv.linear
   /\ ret.op = "computeValues" /\ ret.err = "none"
   /\ other.op = "computeValues" /\ other.err = "none"
   /\ ret.arg.indata = other.arg.indata /\ ret.arg.delta = other.arg.delta
   /\ Len(ret.out[1]) >= 3)
    => other.out[1][1] = NpMean(ret.out[1])

\* ------------------------------------------------------------ claim C20 ----
\* the element-wise sum/difference the additive variables are documented
\* to return
AdditiveResult(cls, arrays) ==
  CASE cls = "Rain" ->
         [t \in DOMAIN arrays.RAINNC |-> [g \in Grid |->
            Add(arrays.RAINNC[t][g], arrays.RAINC[t][g])]]
    [] cls = "RunOff" ->
         [t \in DOMAIN arrays.SFROFF |-> [g \in Grid |->
            Add(arrays.SFROFF[t][g], arrays.UDROFF[t][g])]]
    [] cls = "NetRadiation" ->
         [t \in DOMAIN arrays.ACSWDNB |-> [g \in Grid |->
            Sub(Add(Sub(arrays.ACSWDNB[t][g], arrays.ACSWUPB[t][g]), arrays.ACLWDNB[t][g]),
                arrays.ACLWUPB[t][g])]]

\* C20: for every chunk a checked additive variable (Rain, RunOff,
\* NetRadiation) accepts, computeValues returns the element-wise
\* sum/difference of the prerequisite arrays (RAINNC + RAINC,
\* SFROFF + UDROFF, ACSWDNB - ACSWUPB + ACLWDNB - ACLWUPB), with the time
\* axis and grid of the inputs, and the prerequisite arrays are as they
\* were before the call.
C20_AdditiveIsElementwiseSum ==
  (/\ dv.cls \in {"Rain", "RunOff", "NetRadiation"}
   /\ ret.op = "computeValues" /\ ret.arg.checked /\ ret.err = "none")
    => /\ ret.out = Some(AdditiveResult(dv.cls, ret.arg.indata))
       /\ Len(ret.out[1]) = Len(ret.arg.indata[dv.prerequisites[1]])
       /\ \A t \in DOMAIN ret.out[1] : DOMAIN ret.out[1][t] = Grid
       /\ pending = ret.arg.indata

\* a checked RunOff has returned the sum of a three-step chunk
C20_Witness ==
  /\ dv.cls = "RunOff"
  /\ ret.op = "computeValues" /\ ret.arg.checked /\ ret.err = "none"
  /\ Len(ret.out[1]) = 3
  /\ ret.out[1][3].sw = R(4) /\ ret.arg.indata.SFROFF[3].sw = R(2)

\* ======================================================================
\* State machine: one indicator variable (WetDays, FrostDays, SummerDays)
\* computing chunks whose values lie at and next to its threshold.
\* ======================================================================
\* the representable values next to x are x*(1 - 1/Spacing) and
\* x*(1 + 1/Spacing)
Spacing == 1000
NextAbove(x) == Mul(x, Q(Spacing + 1, Spacing))
NextBelow(x) == Mul(x, Q(Spacing - 1, Spacing))

\* the thresholds (mm/day) the wet-day variables are built with
WetThresholds == {R(1), Q(1, 5)}

IndDescriptors ==
  {WetDays(th, "RAIN", ign) : th \in WetThresholds, ign \in BOOLEAN}
    \cup {FrostDays(R(0), "T2MIN", ign) : ign \in BOOLEAN}
    \cup {SummerDays(R(25), "T2MAX", ign) : ign \in BOOLEAN}
    \cup {FrostDays(R(0), "T2", TRUE)}

\* the fields of the variable's prerequisite: at the threshold, next to it
\* on either side, missing
IndFields(self) ==
  {[sw |-> self.threshold, ne |-> NextAbove(self.threshold)],
   [sw |-> NaN, ne |-> NextBelow(self.threshold)]}

IndInputs(self) == SeqsUpTo(IndFields(self), MaxLen) \ {<< >>}

IndInit ==
  /\ dv \in IndDescriptors
  /\ checked = FALSE
  /\ period = R(0)
  /\ tmp = EmptyDict
  /\ const = EmptyDict
  /\ aggdata = None
  /\ ret = NoCall
  /\ total = Zeros
  /\ nsamp = [g \in Grid |-> 0]
  /\ ncalls = 0
  /\ pending = None
  /\ seen = << >>
  /\ other = None
  /\ alone = None

\* var.computeValues(indata, aggax=0, delta=delta, tmp=tmp)
IndicatorCompute ==
  /\ \E indata \in IndInputs(dv), delta \in Deltas, sarg \in {None, Some(tmp)} :
       \E r \in {IndicatorComputeValues(dv, checked, indata, delta, sarg)} :
         /\ tmp' = IF r.tmp = None THEN tmp ELSE r.tmp[1]
         /\ ret' = Call("computeValues", r,
                        [indata |-> indata, delta |-> delta,
                         checked |-> checked])
         /\ seen' = <<indata>>
  /\ UNCHANGED <<dv, checked, period, const, aggdata, total, nsamp, ncalls,
                 pending, other, alone>>

IndNext ==
  \/ IndicatorCompute
  \/ CheckSourcePrerequisites

SpecInd == IndInit /\ [][IndNext]_vars

\* ------------------------------------------------------------ claim C21 ----
\* the indicator's two values: 1 and 0 in the NaN-safe mode, True and False
\* in the plain mode
Yes(self) == IF self.ignoreNaN THEN R(1) ELSE TRUE
No(self) == IF self.ignoreNaN THEN R(0) ELSE FALSE

\* C21: a WetDays built with a threshold in mm/day stores threshold/86400
\* and compares strictly: in every result, in the NaN-safe and in the plain
\* mode, a precipitation value equal to the stored threshold yields 0
\* (false) and the next representable value above it yields 1 (true).
C21_StrictlyAboveThreshold ==
  (dv.cls = "WetDays" /\ ret.op = "computeValues" /\ ret.err = "none")
    => /\ \E th \in WetThresholds : dv.threshold = Q(th[1], th[2] * 86400)
       /\ \A t \in DOMAIN ret.out[1] : \A g \in Grid :
            /\ ret.arg.indata[t][g] = dv.threshold => ret.out[1][t][g] = No(dv)
            /\ ret.arg.indata[t][g] = NextAbove(dv.threshold)
                 => ret.out[1][t][g] = Yes(dv)

\* a NaN-safe WetDays has seen the threshold value and its upper neighbour
\* in one field
C21_Witness ==
  /\ dv.cls = "WetDays" /\ dv.ignoreNaN
  /\ ret.op = "computeValues" /\ ret.err = "none"
  /\ ret.arg.indata[1].sw = dv.threshold
  /\ ret.arg.indata[1].ne = NextAbove(dv.threshold)
  /\ ret.out[1][1] = [sw |-> R(0), ne |-> R(1)]

\* ------------------------------------------------------------ claim C22 ----
\* C22: in every result of WetDays, FrostDays and SummerDays: with
\* ignoreNaN true a NaN input yields NaN and every other input yields 0 or
\* 1; with ignoreNaN false a NaN input yields the false value.
C22_NaNIsKeptOrFalse ==
  (ret.op = "computeValues" /\ ret.err = "none")
    => \A t \in DOMAIN ret.out[1] : \A g \in Grid :
         IF dv.ignoreNaN
         THEN IF IsNaN(ret.arg.indata[t][g]) THEN IsNaN(ret.out[1][t][g])
              ELSE ret.out[1][t][g] \in {R(0), R(1)}
         ELSE IsNaN(ret.arg.indata[t][g]) => ret.out[1][t][g] = FALSE

\* a NaN-safe FrostDays has returned NaN next to a 1
C22_Witness ==
  /\ dv.cls = "FrostDays" /\ dv.ignoreNaN
  /\ ret.op = "computeValues" /\ ret.err = "none"
  /\ IsNaN(ret.arg.indata[1].sw) /\ IsNaN(ret.out[1][1].sw)
  /\ ret.out[1][1].ne = R(1)

\* ======================================================================
\* State machine: a ColumnWater integrating chunks on two pressure levels.
\* ======================================================================
\* the levels of one time row: decreasing, decreasing, increasing, flat
PressureRows ==
  {<<R(50000), R(25000)>>, <<R(75000), R(25000)>>,
   <<R(25000), R(50000)>>, <<R(50000), R(50000)>>}
\* water density and temperature on one level
DensityFields == {[sw |-> Q(1, 100), ne |-> NaN], [sw |-> Q(1, 50), ne |-> Q(1, 100)]}
TemperatureField == [sw |-> R(250), ne |-> R(300)]

\* the chunks: P_PL any rows; WaterDensity one field per level; T_PL steady
PintInputs ==
  {[P_PL |-> p,
    WaterDensity |-> [t \in 1..Len(p) |-> <<lo, hi>>],
    T_PL |-> [t \in 1..Len(p) |-> <<TemperatureField, TemperatureField>>]] :
     p \in SeqsUpTo(PressureRows, MaxChunk) \ {<< >>},
     lo \in DensityFields, hi \in DensityFields}

PintInit ==
  /\ dv = ColumnWater
  /\ checked = FALSE
  /\ period = R(0)
  /\ tmp = EmptyDict
  /\ const = EmptyDict
  /\ aggdata = None
  /\ ret = NoCall
  /\ total = Zeros
  /\ nsamp = [g \in Grid |-> 0]
  /\ ncalls = 0
  /\ pending \in PintInputs
  /\ seen = << >>
  /\ other = None
  /\ alone = None

\* var.computeValues(indata, aggax=0, delta=delta) on the chunk at hand
ColumnWaterComputeValues ==
  /\ ret' = Call("computeValues",
                 ColumnWater_computeValues(dv, checked, pending, None, None),
                 [indata |-> pending, checked |-> checked])
  /\ seen' = <<pending>>
  /\ UNCHANGED <<dv, checked, period, tmp, const, aggdata, total, nsamp,
                 ncalls, pending, other, alone>>

PintNext ==
  \/ ColumnWaterComputeValues
  \/ CheckSourcePrerequisites

SpecPint == PintInit /\ [][PintNext]_vars

\* ------------------------------------------------------------ claim C23 ----
\* the levels of every time row are strictly decreasing
StrictlyDecreasing(p) ==
  \A t \in 1..Len(p) : \A l \in 1..(Len(p[t]) - 1) : Less(p[t][l + 1], p[t][l])

\* C23 (as stated): a column integral of a checked variable fails, returning
\* no value, whenever the pressure levels are not strictly decreasing along
\* the level axis in every time row; it returns a value only when they are.
C23_DecreasingOrRefused ==
  (ret.op = "computeValues" /\ ret.arg.checked)
    => /\ ~StrictlyDecreasing(ret.arg.indata.P_PL)
            => (ret.err # "none" /\ ret.out = None)
       /\ ret.out # None => StrictlyDecreasing(ret.arg.indata.P_PL)

\* ======================================================================
\* State machine: ctrDiff called on small 2-D and 3-D arrays.
\* ======================================================================
\* the array of the given shape holding c0 + c1*i^2 + c2*j + c3*k at
\* index (i, j, k)
Sample(shape, c) ==
  [shape |-> shape,
   val |-> [ix \in Indices(shape) |->
              R(c[1] + c[2] * ix[1] * ix[1] + c[3] * ix[2]
                + (IF Len(shape) > 2 THEN c[4] * ix[3] ELSE 0))]]

CtrShapes == {<<2, 3>>, <<3, 2>>, <<4, 2>>, <<1, 2, 3>>}
CtrArrays ==
  {Sample(shape, c) : shape \in CtrShapes,
                      c \in {<<0, 1, 3, 7>>, <<5, 2, -1, 4>>}} \cup {None}
\* the axes of an array, counted from the front or from the end
CtrAxes(data) ==
  IF data = None THEN {0} ELSE (-Len(data.shape))..(Len(data.shape) - 1)
\* delta: the default 1, a grid spacing, not a number
CtrDeltas == {R(1), R(2), Q(1, 2), None}

CtrInit ==
  /\ dv = None
  /\ checked = FALSE
  /\ period = R(0)
  /\ tmp = EmptyDict
  /\ const = EmptyDict
  /\ aggdata = None
  /\ ret = NoCall
  /\ total = Zeros
  /\ nsamp = [g \in Grid |-> 0]
  /\ ncalls = 0
  /\ pending \in CtrArrays
  /\ seen = << >>
  /\ other = None
  /\ alone = None

\* ctrDiff(data, axis=axis, delta=delta) on the array at hand
CtrDiff ==
  /\ \E axis \in CtrAxes(pending), delta \in CtrDeltas :
       \E r \in {ctrDiff(pending, axis, delta)} :
         /\ pending' = r.data
         /\ ret' = Call("ctrDiff", r,
                        [data |-> pending, axis |-> axis, delta |-> delta])
  /\ UNCHANGED <<dv, checked, period, tmp, const, aggdata, total, nsamp,
                 ncalls, seen, other, alone>>

CtrNext == CtrDiff

SpecCtr == CtrInit /\ [][CtrNext]_vars

\* ------------------------------------------------------------ claim C28 ----
\* the index next to ix along the axis (counted from the front), d steps on
Along(ix, ax, d) == [ix EXCEPT ![ax + 1] = @ + d]

\* the centred difference at ix along axis ax of length n, one-sided at the
\* two ends
CentredDifference(data, ax, delta, ix) ==
  LET n == data.shape[ax + 1]
      i == ix[ax + 1]
  IN IF i = 0
     THEN Divide(Sub(data.val[Along(ix, ax, 1)], data.val[ix]), delta)
     ELSE IF i = n - 1
     THEN Divide(Sub(data.val[ix], data.val[Along(ix, ax, -1)]), delta)
     ELSE Divide(Sub(data.val[Along(ix, ax, 1)], data.val[Along(ix, ax, -1)]),
                 Mul(R(2), delta))

\* C28 (as stated): ctrDiff along the chosen axis of length n >= 2 returns
\* an array of the shape and axis order of its input, holding the centred
\* difference at the interior indices and the forward / backward difference
\* at the two ends, for delta = 1 and any other delta; the input array is
\* not modified; a non-array data or a non-numeric delta raises TypeError.
C28_CentredDifferences ==
  ret.op = "ctrDiff" =>
    /\ pending = ret.arg.data
    /\ (ret.arg.data = None \/ ret.arg.delta = None) => ret.err = "TypeError"
    /\ (ret.arg.data # None /\ ret.arg.delta # None) =>
         LET data == ret.arg.data
             ax == IF ret.arg.axis < 0 THEN ret.arg.axis + Len(data.shape)
                   ELSE ret.arg.axis
         IN data.shape[ax + 1] >= 2 =>
              /\ ret.err = "none"
              /\ ret.out[1].shape = data.shape
              /\ \A ix \in Indices(data.shape) :
                   ret.out[1].val[ix]
                     = CentredDifference(data, ax, ret.arg.delta, ix)

\* ======================================================================
\* State machine: a TimeOfConvection (dv) and an OrographicIndex (other.dv)
\* computed in any order on one constants dictionary.
\* ======================================================================
\* HGT of shape (1, 2, 2)
Topography == Sample(<<1, 2, 2>>, <<100, 0, 40, 10>>)
\* the constants loaded for a run; a run may lack one of them
LoadedConstants ==
  [k \in {"HGT", "DX", "DY", "XLONG"} |->
     CASE k = "HGT" -> Topography
       [] k = "DX" -> R(2)
       [] k = "DY" -> R(4)
       [] k = "XLONG" -> TocConst["XLONG"]]
Without(dict, key) == [k \in DOMAIN dict \ {key} |-> dict[k]]
ConstStarts ==
  {LoadedConstants, Without(LoadedConstants, "DX"),
   Without(LoadedConstants, "DY"), Without(LoadedConstants, "XLONG")}

\* one-day chunks of TimeOfConvection starting at any of the time stamps
StartChunks ==
  {[Times |-> <<ts>>, TRAINCVMAX |-> <<f>>] : ts \in TocTimes, f \in TocFields}
\* U10 and V10 over one or two time steps
WindChunks ==
  {[U10 |-> Sample(<<n, 2, 2>>, <<1, 1, 0, 2>>),
    V10 |-> Sample(<<n, 2, 2>>, <<0, 2, 3, 0>>)] : n \in 1..MaxChunk}

ConstInit ==
  /\ dv = TimeOfConvection
  /\ other = [dv |-> OrographicIndex]
  /\ checked = TRUE
  /\ period = R(0)
  /\ tmp = EmptyDict
  /\ const \in ConstStarts
  /\ aggdata = None
  /\ ret = NoCall
  /\ total = Zeros
  /\ nsamp = [g \in Grid |-> 0]
  /\ ncalls = 0
  /\ pending = None
  /\ seen = << >>
  /\ alone = None

\* dv.computeValues(indata, const=const) on the shared dictionary
ConvectionComputeValues ==
  /\ \E indata \in StartChunks :
       \E r \in {TimeOfConvection_computeValues(dv, checked, indata, Some(const))} :
         /\ const' = r.const[1]
         /\ ret' = Call("computeValues", r,
                        [who |-> "dv", times |-> indata.Times])
  /\ UNCHANGED <<dv, checked, period, tmp, aggdata, total, nsamp, ncalls,
                 pending, seen, other, alone>>

\* other.dv.computeValues(indata, const=const) on the shared dictionary
OrographicComputeValues ==
  /\ \E indata \in WindChunks :
       \E r \in {OrographicIndex_computeValues(other.dv, checked, indata,
                                               Some(const))} :
         /\ const' = r.const[1]
         /\ ret' = Call("computeValues", r,
                        [who |-> "other", times |-> indata.U10.shape[1]])
  /\ UNCHANGED <<dv, checked, period, tmp, aggdata, total, nsamp, ncalls,
                 pending, seen, other, alone>>

ConstNext ==
  \/ ConvectionComputeValues
  \/ OrographicComputeValues

SpecConst == ConstInit /\ [][ConstNext]_vars

\* ------------------------------------------------------------ claim C24 ----
DerivedKeys ==
  {"hgtgrd_sn", "hgtgrd_we", "XLONG_360", "TimeOfSimulationStart", "DeltaToSS"}

\* C24: over any sequence of computeValues calls on one constants
\* dictionary, every call keeps every entry the dictionary had, with its
\* value, and adds nothing but derived entries (hgtgrd_sn, hgtgrd_we,
\* XLONG_360, TimeOfSimulationStart, DeltaToSS) that were absent; so the
\* declared constants and the first value of each derived entry stay.
C24_ConstantsOnlyGrow ==
  [][/\ \A k \in DOMAIN const : k \in DOMAIN const' /\ const'[k] = const[k]
     /\ (DOMAIN const' \ DOMAIN const) \subseteq DerivedKeys]_vars

\* both variables have filled their entries, and the simulation start stored
\* is not the first stamp of the chunk computed last
C24_Witness ==
  /\ DerivedKeys \subseteq DOMAIN const
  /\ const["HGT"] = Topography
  /\ ret.op = "computeValues" /\ ret.arg.who = "dv" /\ ret.err = "none"
  /\ const["TimeOfSimulationStart"] # ret.arg.times[1]

\* ------------------------------------------------------------ claim C25 ----
\* One ConsecutiveExtrema instance is used for a run and then for another
\* run on an empty scratch dictionary; next to it every run is made by an
\* instance constructed for that run (alone), on the same chunks.
ReuseChunks == SeqsUpTo(CoxFields, MaxChunk) \ {<< >>}

ReuseInit ==
  /\ dv \in CoxDescriptors
  /\ checked = TRUE
  /\ period = R(0)
  /\ tmp = EmptyDict
  /\ alone = [tmp |-> EmptyDict, period |-> R(0)]
  /\ const = EmptyDict
  /\ aggdata = None
  /\ ret = NoCall
  /\ total = Zeros
  /\ nsamp = [g \in Grid |-> 0]
  /\ ncalls = 0
  /\ pending = None
  /\ seen = << >>
  /\ other = None

\* dv.computeValues(indata, aggax=0, delta=delta, const=None, tmp=tmp) on
\* the instance in use, and the same call on the instance of this run
ReuseComputeValues ==
  /\ ncalls < MaxCalls
  /\ \E chunk \in ReuseChunks, delta \in CoxDeltas :
       \E r \in {ConsecutiveExtrema_computeValues(dv, checked, period, chunk,
                                                  delta, None, tmp)},
          a \in {ConsecutiveExtrema_computeValues(dv, checked, alone.period,
                                                  chunk, delta, None,
                                                  alone.tmp)} :
         /\ tmp' = r.tmp
         /\ period' = r.period
         /\ alone' = [tmp |-> a.tmp, period |-> a.period]
         /\ ret' = Call("computeValues", r,
                        [delta |-> delta,
                         alone |-> [err |-> a.err, out |-> a.out]])
  /\ ncalls' = ncalls + 1
  /\ UNCHANGED <<dv, checked, const, aggdata, total, nsamp, pending, seen,
                 other>>

\* a new run: tmp = dict() for the instance in use, and a new instance
\* (self.period = 0.) with its own empty dictionary next to it
NewRun ==
  /\ tmp # EmptyDict
  /\ tmp' = EmptyDict
  /\ alone' = [tmp |-> EmptyDict, period |-> R(0)]
  /\ ret' = Call("dict", Return(None), None)
  /\ UNCHANGED <<dv, checked, period, const, aggdata, total, nsamp, ncalls,
                 pending, seen, other>>

ReuseNext == ReuseComputeValues \/ NewRun
SpecReuse == ReuseInit /\ [][ReuseNext]_vars

\* C25 (as stated): computeValues changes no attribute of the descriptor
\* (period stays as constructed), so a used instance given an empty scratch
\* dictionary returns what a newly constructed instance returns and leaves
\* the same scratch, also when the new run has another delta.
C25_UsedInstanceLikeNew ==
  /\ [][period' = period]_vars
  /\ [](ret.op = "computeValues"
          => /\ ret.err = ret.arg.alone.err
             /\ ret.out = ret.arg.alone.out
             /\ tmp = alone.tmp)

\* ------------------------------------------------------------ claim C26 ----
\* the series seen so far as one chunk: a new instance, an empty scratch
\* dictionary, one computeValues call and one aggregateValues call
WholeSeries ==
  CHOOSE w \in {[com |-> r, agg |-> Extrema_aggregateValues(dv, r.out, None)] :
                  r \in {ConsecutiveExtrema_computeValues(
                           dv, TRUE, R(0), Series(seen), tmp["COX_DELTA"],
                           None, EmptyDict)}} : TRUE

\* C26: when the chunks of a series have been computed in order on one
\* scratch dictionary and their results folded with aggregateValues, the
\* folded maximum and the counter left in scratch are those of the whole
\* series computed as one chunk.
C26_ChunkingInvariance ==
  (seen # << >> /\ pending = None)
    => /\ WholeSeries.com.err = "none" /\ WholeSeries.agg.err = "none"
       /\ aggdata = WholeSeries.agg.out
       /\ tmp[dv.tmpdata[1]] = WholeSeries.com.tmp[dv.tmpdata[1]]

\* two chunks folded; at one grid point every step of chunk 1 and the first
\* step of chunk 2 exceed, the streak ends within chunk 2, and the folded
\* maximum is longer than chunk 1
C26_Witness ==
  /\ Len(seen) = 2 /\ pending = None /\ ret.op = "aggregateValues"
  /\ \E g \in Grid :
       /\ \A t \in 1..Len(seen[1]) : Exceeds(dv, seen[1][t][g])
       /\ Exceeds(dv, seen[2][1][g])
       /\ \E t \in 1..Len(seen[2]) : ~Exceeds(dv, seen[2][t][g])
       /\ aggdata[1][g] # Masked
       /\ Less(Mul(R(Len(seen[1])), period), aggdata[1][g])

\* ------------------------------------------------------------ claim C27 ----
\* LiquidPrecip_SR (dv) and SolidPrecip_SR (other.dv) are computed from the
\* same chunk (pending); ret and other.ret hold their last calls.
\* total precipitation, no value missing
PrecipFields == {[sw |-> R(2), ne |-> R(4)], [sw |-> R(0), ne |-> R(1)]}
\* the solid fraction: within [0,1], up to 2, and with a missing value
RatioFields ==
  {[sw |-> Q(1, 2), ne |-> R(1)], [sw |-> R(2), ne |-> Q(1, 2)],
   [sw |-> R(2), ne |-> NaN]}
RatioInputs ==
  UNION {[RAIN : [1..k -> PrecipFields], SR : [1..k -> RatioFields]] :
           k \in 1..MaxChunk}

RatioInit ==
  /\ dv = LiquidPrecipSR
  /\ other = [dv |-> SolidPrecipSR, ret |-> NoCall]
  /\ checked = FALSE
  /\ period = R(0)
  /\ tmp = EmptyDict
  /\ const = EmptyDict
  /\ aggdata = None
  /\ ret = NoCall
  /\ total = Zeros
  /\ nsamp = [g \in Grid |-> 0]
  /\ ncalls = 0
  /\ pending \in RatioInputs
  /\ seen = << >>
  /\ alone = None

\* LiquidPrecipSR.computeValues(indata, aggax=0, delta=delta) on the chunk
LiquidComputeValues ==
  /\ \E delta \in Deltas :
       \E r \in {LiquidPrecipSR_computeValues(dv, checked, pending, delta,
                                              None)} :
         ret' = Call("computeValues", r, [delta |-> delta])
  /\ seen' = <<pending>>
  /\ UNCHANGED <<dv, checked, period, tmp, const, aggdata, total, nsamp,
                 ncalls, pending, other, alone>>

\* SolidPrecipSR.computeValues(indata, aggax=0, delta=delta) on the chunk;
\* the variable is checked when LiquidPrecip_SR is (same prerequisites)
SolidComputeValues ==
  /\ \E delta \in Deltas :
       \E r \in {SolidPrecipSR_computeValues(other.dv, checked, pending,
                                             delta, None)} :
         other' = [other EXCEPT !.ret = Call("computeValues", r,
                                             [delta |-> delta])]
  /\ seen' = <<pending>>
  /\ UNCHANGED <<dv, checked, period, tmp, const, aggdata, total, nsamp,
                 ncalls, pending, ret, alone>>

RatioNext ==
  \/ CheckSourcePrerequisites
  \/ LiquidComputeValues
  \/ SolidComputeValues

SpecRatio == RatioInit /\ [][RatioNext]_vars

\* the ratio as the statement scales it: halved everywhere if its largest
\* value in the chunk is greater than 1
ScaledRatio(SR) ==
  IF \E t \in 1..Len(SR), g \in Grid : Greater(SR[t][g], R(1))
  THEN [t \in 1..Len(SR) |-> [g \in Grid |-> Divide(SR[t][g], R(2))]]
  ELSE SR

\* C27 (as stated): for a chunk both variables have computed, with s the
\* ratio scaled by the chunk maximum, liquid = RAIN * (1 - s) and
\* solid = RAIN * s, and liquid + solid = RAIN at every element.
C27_LiquidPlusSolidIsRain ==
  (/\ ret.op = "computeValues" /\ ret.err = "none"
   /\ other.ret.op = "computeValues" /\ other.ret.err = "none")
    => \A t \in 1..Len(pending.RAIN), g \in Grid :
         LET s == ScaledRatio(pending.SR)[t][g]
             rain == pending.RAIN[t][g]
             liquid == ret.out[1][t][g]
             solid == other.ret.out[1][t][g]
         IN /\ liquid = Mul(rain, Sub(R(1), s))
            /\ solid = Mul(rain, s)
            /\ Add(liquid, solid) = rain

\* ------------------------------------------------------------ claim C29 ----
\* calcTimeDelta is called on a list of timestamps in time order (pending);
\* ret holds the call.
MaxStamps == 4
\* the days and times the timestamps are drawn from: around the leap day of
\* 2020, the Februaries of 2019 and 2021, and dates out of range
Stamps ==
  {Stamp(2019, 2, 1, 0), Stamp(2019, 3, 1, 0),
   Stamp(2020, 1, 31, 0), Stamp(2020, 2, 1, 0), Stamp(2020, 2, 28, 43200),
   Stamp(2020, 2, 29, 0), Stamp(2020, 2, 29, 43200), Stamp(2020, 3, 1, 0),
   Stamp(2020, 3, 2, 0), Stamp(2020, 3, 29, 0), Stamp(2020, 4, 1, 0),
   Stamp(2021, 2, 10, 0), Stamp(2021, 3, 1, 0)}
StampLists ==
  UNION {{l \in [1..k -> Stamps] :
            \A i \in 1..(k - 1) : Before(l[i], l[i + 1])} : k \in 1..MaxStamps}

DeltaInit ==
  /\ dv = None
  /\ checked = FALSE
  /\ period = R(0)
  /\ tmp = EmptyDict
  /\ const = EmptyDict
  /\ aggdata = None
  /\ ret = NoCall
  /\ total = Zeros
  /\ nsamp = [g \in Grid |-> 0]
  /\ ncalls = 0
  /\ pending \in StampLists
  /\ seen = << >>
  /\ other = None
  /\ alone = None

\* calcTimeDelta(timestamps, year, month) with the year and month given or
\* left out
CalcTimeDelta ==
  /\ \E year \in {None, Some(2020)}, month \in {None, Some(2)} :
       \E r \in {calcTimeDelta(pending, year, month)} :
         ret' = Call("calcTimeDelta", r,
                     [year |-> year, month |-> month, steps |-> r.steps])
  /\ UNCHANGED <<dv, checked, period, tmp, const, aggdata, total, nsamp,
                 ncalls, pending, seen, other, alone>>

DeltaNext == CalcTimeDelta
SpecDelta == DeltaInit /\ [][DeltaNext]_vars

\* the year and month the call is about
CallYear == IF ret.arg.year = None THEN pending[1].y ELSE ret.arg.year[1]
CallMonth == IF ret.arg.month = None THEN pending[1].m ELSE ret.arg.month[1]
\* the first timestamp is outside the year or month, or the last one beyond
\* the following year or month
OutOfRange ==
  LET first == pending[1]
      last == pending[Len(pending)]
  IN \/ first.y # CallYear \/ first.m # CallMonth
     \/ last.y \notin {CallYear, CallYear + 1}
     \/ last.m \notin {CallMonth, (CallMonth % 12) + 1}
\* the case in which a day is taken off
LeapDayMissing ==
  LET first == pending[1]
      last == pending[Len(pending)]
      ld == Stamp(CallYear, 2, 29, 0)
  IN /\ CallMonth = 2 /\ isleap(CallYear)
     /\ Before(first, ld) /\ Before(ld, last)
     /\ first.d # 29 /\ last.d # 29
     /\ \A i \in 1..Len(pending) : ~(pending[i].m = 2 /\ pending[i].d = 29)

\* C29 (as stated): a call whose first or last timestamp is out of range
\* fails an assertion; a call that returns, returns the seconds from the
\* first to the last timestamp, less 86400 exactly when the leap day of a
\* leap February lies strictly between them, neither is dated the 29th and
\* no timestamp is dated Feb 29; the search loop ends within the list.
C29_LeapDayAwareDelta ==
  ret.op = "calcTimeDelta"
    => /\ ret.arg.steps <= Len(pending)
       /\ OutOfRange => ret.err = "AssertionError"
       /\ ret.err \in {"none", "AssertionError"}
       /\ ret.err = "none"
            => ret.out = Some(TotalSeconds(pending[1], pending[Len(pending)])
                                - (IF LeapDayMissing THEN 86400 ELSE 0))

\* ------------------------------------------------------------ claim C30 ----
\* A variable that reads grid constants (Vorticity or OrographicIndex) is
\* checked and then computed on a chunk (pending.indata) with the constants
\* argument of the call (pending.const): None, an empty dictionary, or the
\* loaded constants, whole or lacking a grid spacing.
GridVariables == {Vorticity, OrographicIndex}
CallConstants ==
  {None, Some(EmptyDict), Some(LoadedConstants),
   Some(Without(LoadedConstants, "DX")), Some(Without(LoadedConstants, "DY"))}
\* winds on one pressure level over a grid of 2 x 3 points
LevelWinds(n, c) ==
  [shape |-> <<n, 1, 2, 3>>,
   val |-> [ix \in Indices(<<n, 1, 2, 3>>) |->
              R(c[1] * ix[1] + c[2] * ix[3] + c[3] * ix[4] * ix[4])]]
GridChunks(self) ==
  IF self.cls = "Vorticity"
  THEN {[U_PL |-> LevelWinds(n, <<1, 3, 1>>),
         V_PL |-> LevelWinds(n, <<0, 2, 5>>)] : n \in 1..MaxChunk}
  ELSE WindChunks

GridInit ==
  /\ dv \in GridVariables
  /\ checked = FALSE
  /\ period = R(0)
  /\ tmp = EmptyDict
  /\ const = EmptyDict
  /\ aggdata = None
  /\ ret = NoCall
  /\ total = Zeros
  /\ nsamp = [g \in Grid |-> 0]
  /\ ncalls = 0
  /\ pending \in {[indata |-> c, const |-> k] :
                    c \in GridChunks(dv), k \in CallConstants}
  /\ seen = << >>
  /\ other = None
  /\ alone = None

\* dv.computeValues(indata, aggax=0, delta=None, const=const)
GridComputeValues ==
  /\ \E r \in {IF dv.cls = "Vorticity"
               THEN Vorticity_computeValues(dv, checked, pending.indata,
                                            pending.const)
               ELSE OrographicIndex_computeValues(dv, checked, pending.indata,
                                                  pending.const)} :
       ret' = Call("computeValues", r, [checked |-> checked])
  /\ seen' = <<pending>>
  /\ UNCHANGED <<dv, checked, period, tmp, const, aggdata, total, nsamp,
                 ncalls, pending, other, alone>>

GridNext == CheckSourcePrerequisites \/ GridComputeValues
SpecGrid == GridInit /\ [][GridNext]_vars

\* C30 (as stated): a checked variable computed without constants (None or
\* an empty dictionary) either raises the missing-constants ValueError or
\* returns without having looked a constant up; no lookup fails.
C30_NoUndeclaredConstantIsRead ==
  (/\ ret.op = "computeValues" /\ ret.arg.checked
   /\ (pending.const = None \/ pending.const = Some(EmptyDict)))
    => ret.err \in {"ValueError", "none"}

====
